---- MODULE Spec2Model ----
(***************************************************************************)
(* A model of the proxytrace ingestion pipeline (src/proxytrace/app.py):   *)
(* connection readers -> recv_queue -> workers -> span_queue -> the batch  *)
(* exporter with its retry and circuit breaker -> the correlation sink.    *)
(*                                                                         *)
(* Time is a discrete tick.  The exporter's collection window is measured  *)
(* by `elapsed` (ticks since `start = time.time()`, line 177) and the      *)
(* breaker's reset window by breaker.since_open (ticks since opened_at).   *)
(* The clock advances freely between any two steps of any thread.          *)
(***************************************************************************)
EXTENDS Integers, Sequences, FiniteSets, TLC

(* ------------------------------ bounds -------------------------------- *)
MaxBatchSize == 2       \* BATCH_SIZE is configured in 0..MaxBatchSize
MaxBatchTimeout == 1    \* BATCH_TIMEOUT is configured in 0..MaxBatchTimeout ticks
MaxFeed == 3            \* spans fed to the exporter in SpecExport
BreakerFeed == 7        \* spans fed to the exporter in SpecBreaker
MaxQueue == 1           \* largest QUEUE_MAXSIZE of the pipeline
FeedQueue == 2          \* QUEUE_MAXSIZE where the exporter or one reader is studied
WORKER_COUNT == 2       \* worker threads (line 22)
MaxConns == 2           \* client connections
PipelineConns == 1      \* the connections that send lines through the pipeline
MaxLines == 2           \* lines a client sends in Spec, each in one chunk
MaxStream == 4          \* bytes a client sends in SpecFraming
MaxProcID == 17         \* largest of the small ProcID and ProcParentID values
MaxGuidLen == 2         \* longest of the short SessionGUID values
MaxEpoch == 1           \* latest clock reading of build_span
MaxChunk == 2           \* bytes one recv returns in SpecFraming

(* ------------------------- program constants -------------------------- *)
fail_max == 5               \* pybreaker.CircuitBreaker(fail_max=5, ...)
reset_timeout == 30         \* pybreaker.CircuitBreaker(..., reset_timeout=30)
stop_after_attempt == 3     \* tenacity stop=stop_after_attempt(3)
TraceLen == 32              \* (...)[:32]
ZeroPad == 31               \* '0'*31
SpanIdLen == 16             \* format(..., '016x')

VARIABLES
    BATCH_SIZE,         \* configuration, fixed at start-up (line 23)
    BATCH_TIMEOUT,      \* configuration, in ticks (line 24)
    shutdown_event,     \* threading.Event (line 53)
    recv_queue,         \* queue of raw lines (line 51)
    span_queue,         \* queue of spans (line 52)
    feed,               \* the records still to come: how many, and of which kinds
    nspans,             \* spans put on span_queue so far (gives each its seq)
    exp_pc,             \* where BatchExporter.run stands
    batch,              \* run's local `batch`
    elapsed,            \* time.time() - start, in ticks
    breaker,            \* pybreaker state: state, fail_counter, since_open
    records_received,   \* Counter (line 43)
    records_parsed,     \* Counter (line 44)
    batches_sent,       \* Counter (line 45)
    export_failures,    \* Counter (line 46)
    span_queue_size,    \* Gauge (line 47)
    last,               \* what the last processed batch did
    consec_fail,        \* send_batch calls that failed since the last success
    dispatched,         \* seq numbers of the spans handed to send_batch so far
    burst,              \* the arrivals on span_queue: the spans put at the clock
                        \* reading of the first put, the pacing of the puts
    client,             \* what the clients send: the chunks, the bytes left
    acc_pc,             \* where the main thread stands: socket_listener, drain loop
    rd_pc,              \* where each connection's handle_client stands
    buf,                \* handle_client's `buf`, per connection
    got,                \* the bytes each connection has received so far
    cuts,               \* the lengths of `got` at which a recv ended
    enq,                \* the lines each connection has put on recv_queue
    nlines,             \* lines put on recv_queue so far (gives each its id)
    wk_pc,              \* where each worker stands
    wk_line,            \* the line a worker dequeued last
    wk_span,            \* the span a worker is putting on span_queue
    rd_line,            \* the line a connection's reader is putting on recv_queue
    put_waited,         \* the queues on which a put waited for room, then enqueued
    QUEUE_MAXSIZE,      \* configuration (line 25)
    collector,          \* what the collector answers, whether the sink can fail
    built,              \* a record handed to build_span, and the span returned
    at_shutdown,        \* what was the case when the flag was set: the spans the
                        \* exporter held, the connections accepted, the readers
                        \* blocked in a put
    gauge_set_by        \* the thread that called span_queue_size.set last

vars == <<BATCH_SIZE, BATCH_TIMEOUT, shutdown_event, recv_queue, span_queue,
          feed, nspans, exp_pc, batch, elapsed, breaker, records_received,
          records_parsed, batches_sent, export_failures, span_queue_size,
          last, consec_fail, dispatched, burst, client, acc_pc, rd_pc, buf,
          got, cuts, enq, nlines, wk_pc, wk_line, wk_span, rd_line, put_waited,
          QUEUE_MAXSIZE, collector, built, at_shutdown, gauge_set_by>>

(* ------------------------------ helpers ------------------------------- *)
Range(s) == {s[i] : i \in 1..Len(s)}

Take(s, n) == SubSeq(s, 1, IF n < Len(s) THEN n ELSE Len(s))

Zeros(n) == [i \in 1..n |-> "0"]

\* Sequences over S of length at most n.
SeqsUpTo(S, n) == UNION {[1..k -> S] : k \in 0..n}

Has(record, key) == key \in DOMAIN record

\* dict.get(key, default)
Get(record, key, default) == IF key \in DOMAIN record THEN record[key] ELSE default

(* ---------------------------- span builder ---------------------------- *)
\* str.replace('-', ''), on a string held as a sequence of characters
RECURSIVE RemoveDashes(_)
RemoveDashes(s) ==
    IF s = <<>> THEN <<>>
    ELSE IF Head(s) = "-" THEN RemoveDashes(Tail(s))
    ELSE <<Head(s)>> \o RemoveDashes(Tail(s))

is_logoff(record) == Has(record, "LogoffProcType")

\* a trace id that also depends on the name of the process
TraceIdByName(record) ==
    LET guid == Get(record, "SessionGUID", <<>>)
        base_trace == RemoveDashes(guid) \o Get(record, "ProcName", <<>>)
    IN  IF Has(record, "LogoffProcType")
        THEN Take(<<"2">> \o base_trace \o Zeros(ZeroPad), TraceLen)
        ELSE Take(<<"1">> \o base_trace \o Zeros(ZeroPad), TraceLen)

\* lines 87-92: ('2' + base_trace + '0'*31)[:32] or ('1' + ...)[:32]
trace_id(record) ==
    LET guid == Get(record, "SessionGUID", <<>>)
        base_trace == RemoveDashes(guid)
    IN  IF is_logoff(record)
        THEN Take(<<"2">> \o base_trace \o Zeros(ZeroPad), TraceLen)
        ELSE Take(<<"1">> \o base_trace \o Zeros(ZeroPad), TraceLen)

(* ------------------------------ integers ------------------------------ *)
\* A Python int, which has no width: its sign and its decimal digits, most
\* significant first, with no leading zero.
Zero == [neg |-> FALSE, digits |-> <<0>>]

RECURSIVE Dec(_)
Dec(k) == IF k < 10 THEN <<k>> ELSE Dec(k \div 10) \o <<k % 10>>

RECURSIVE StripZeros(_)
StripZeros(ds) == IF Len(ds) > 1 /\ Head(ds) = 0 THEN StripZeros(Tail(ds)) ELSE ds

\* Long division of the digits ds by the small number d, carry coming in.
RECURSIVE LongDiv(_, _, _, _)
LongDiv(ds, d, carry, acc) ==
    IF ds = <<>> THEN [q |-> acc, r |-> carry]
    ELSE LET cur == carry * 10 + Head(ds)
         IN  LongDiv(Tail(ds), d, cur % d, Append(acc, cur \div d))

DivMod(ds, d) ==
    LET x == LongDiv(ds, d, 0, <<>>)
    IN  [q |-> StripZeros(x.q), r |-> x.r]

HexChars == <<"0", "1", "2", "3", "4", "5", "6", "7", "8", "9",
              "a", "b", "c", "d", "e", "f">>

\* format type 'x': the lowercase hexadecimal digits of a magnitude
RECURSIVE HexOf(_)
HexOf(ds) ==
    LET x == DivMod(ds, Len(HexChars))
    IN  IF x.q = <<0>> THEN <<HexChars[x.r + 1]>>
        ELSE HexOf(x.q) \o <<HexChars[x.r + 1]>>

\* a format that does not pad
format_x(n) == (IF n.neg THEN <<"-">> ELSE <<>>) \o HexOf(n.digits)

\* line 79: format(n, '016x'): the sign, then zeros up to a width of SpanIdLen
\* in all, then the digits; a longer result is not cut.
format_016x(n) ==
    LET h == HexOf(n.digits)
        sign == IF n.neg THEN <<"-">> ELSE <<>>
        pad == SpanIdLen - Len(sign) - Len(h)
    IN  sign \o Zeros(IF pad > 0 THEN pad ELSE 0) \o h

\* bool(int(...)) of line 80
IsZero(n) == n.digits = <<0>>

\* line 79: span_id
span_id(record) == format_016x(Get(record, "ProcID", Zero))

\* a builder that formats a parent id of zero too
ParentIdOfZero(record) == format_016x(Get(record, "ProcParentID", Zero))

\* lines 80-82: parent_id
parent_id(record) ==
    IF ~IsZero(Get(record, "ProcParentID", Zero))
    THEN format_016x(Get(record, "ProcParentID", Zero))
    ELSE <<>>

\* a builder that takes the service name from LogonProcType for every record
ServiceNameOfLogon(record) == Get(record, "LogonProcType", "unknown-service")

\* line 85: service_name
service_name(record) ==
    IF is_logoff(record)
    THEN Get(record, "LogoffProcType", Get(record, "LogonProcType", "unknown-service"))
    ELSE Get(record, "LogonProcType", "unknown-service")

\* line 86: event_type
event_type(record) == IF is_logoff(record) THEN "logoff" ELSE "logon"

\* lines 101, 111 and 127: the service name, the name and the event tag
span_tags(record) ==
    [service_name |-> service_name(record),
     name |-> Get(record, "ProcName", "unknown-span"),
     event_type |-> event_type(record)]

\* lines 100-108: the ids of the span
span_ids(record) ==
    [traceId |-> trace_id(record), spanId |-> span_id(record),
     parentSpanId |-> parent_id(record)]

\* The spans entry of lines 100-108, before any record was built.
NoIds == [traceId |-> <<>>, spanId |-> <<>>, parentSpanId |-> <<>>]

\* The tags of lines 101, 111 and 127, before any record was built.
NoTags == [service_name |-> "", name |-> "", event_type |-> ""]

NoBuilt == [record |-> [LogonProcType |-> "t"], done |-> FALSE, epoch_s |-> 0,
            ids |-> NoIds, tags |-> NoTags]

\* The fields build_span converts with int() or float(): lines 76-77, 79-82
\* and 117-126.
NumericKeys ==
    {"ProcStartTimeRelativeMs", "ProcLifetimeMs", "ProcID", "ProcParentID",
     "ProcCPUTimeMs", "ProcWorkingSetMB", "ProcNetKBPS", "ProcIOReadCount",
     "ProcIOWriteCount", "ProcIOReadMB", "ProcIOWriteMB", "ProcIOLatencyReadMs2",
     "ProcIOLatencyWriteMs2"}

\* A JSON value that int() and float() raise on (a string that is no number,
\* a null, a list), and a JSON value that is not a string and so has no
\* .replace (a number, a null).
NonNumeric == [text |-> "abc"]

NotAString == <<"<number>">>

\* a builder that raises on a record without a ProcID
BuildsWithProcID(record) ==
    /\ Has(record, "ProcID")
    /\ \A key \in NumericKeys : Get(record, key, Zero) # NonNumeric
    /\ Get(record, "SessionGUID", <<>>) # NotAString

\* lines 74-135: build_span(record) returns, which it does when every int()
\* and float() of lines 76-82 and 117-126 and the guid.replace of line 88
\* do; a field that is missing is read as 0 or '' and converts.
Builds(record) ==
    /\ \A key \in NumericKeys : Get(record, key, Zero) # NonNumeric
    /\ Get(record, "SessionGUID", <<>>) # NotAString

\* lines 76-77 and 117-126: int(record.get(key, 0)), float(record.get(key, 0));
\* the start and end times are the clock plus the first two of them
span_nums(record) == [key \in NumericKeys |-> Get(record, key, Zero)]

\* lines 97-133: the one element of the span's resourceSpans list
resource_span(record) ==
    [ids |-> span_ids(record),
     tags |-> span_tags(record),
     ProcUser |-> Get(record, "ProcUser", "unknown-user"),
     nums |-> span_nums(record)]

\* lines 74-135: the fields the exporter reads, and the resourceSpans list
build_span(record) ==
    [_guid |-> Get(record, "SessionGUID", <<>>),
     _trace_id |-> trace_id(record),
     event_type |-> IF is_logoff(record) THEN "logoff" ELSE "logon",
     resourceSpans |-> <<resource_span(record)>>]

(* ------------------------------- queues ------------------------------- *)
\* queue.Queue(maxsize=QUEUE_MAXSIZE), lines 51-52: the queue is full when
\* 0 < maxsize <= qsize; a maxsize of zero or less is an unbounded queue.
Full(q) == 0 < QUEUE_MAXSIZE /\ QUEUE_MAXSIZE <= Len(q)

PutNeverBlocks(q) == FALSE

\* queue.put(item): the caller waits while the queue is full
PutBlocks(q) == Full(q)

\* a get that returns the first item and leaves it on the queue
QueueAfterPeek(q) == q

\* queue.get(): under the queue's lock, the first item is removed from the
\* queue and returned to the one caller
QueueAfterGet(q) == Tail(q)


(* ------------------------- retry and breaker -------------------------- *)
\* What one session.post + raise_for_status can do (lines 162-163): return,
\* or raise (a transport error from post, an HTTPError for a non-2xx status).
PostOutcome == {"2xx", "error"}

\* The outcomes the endpoint would give to successive attempts of one call:
\* it fails the first k - 1 attempts and answers the k-th and later ones (what
\* follows the first success is never asked for).
PostOutcomes ==
    {[i \in 1..(stop_after_attempt + 1) |-> IF i < k THEN "error" ELSE "2xx"] :
        k \in 1..(stop_after_attempt + 2)}

\* tenacity @retry that would stop one attempt later than configured
RECURSIVE AttemptsOneMore(_, _)
AttemptsOneMore(outcomes, i) ==
    IF outcomes[i] = "2xx" \/ i >= stop_after_attempt + 1 THEN i
    ELSE AttemptsOneMore(outcomes, i + 1)

\* tenacity @retry (lines 145-149): attempt i is made; the call ends with it
\* when it returns or when stop_after_attempt(3) says stop, and is re-made
\* after any exception otherwise.  The value is the number of attempts made.
RECURSIVE Attempts(_, _)
Attempts(outcomes, i) ==
    IF outcomes[i] = "2xx" \/ i >= stop_after_attempt THEN i
    ELSE Attempts(outcomes, i + 1)

\* The retry-wrapped send: [ok, attempts]; not ok is tenacity's RetryError.
retry_call(outcomes) ==
    LET n == Attempts(outcomes, 1)
    IN  [ok |-> outcomes[n] = "2xx", attempts |-> n]

\* a breaker that never rejects a call
BreakerNeverBlocks(b) == FALSE

\* pybreaker, open state, before_call: CircuitBreakerError while
\* now < opened_at + reset_timeout
BreakerBlocks(b) == b.state = "open" /\ b.since_open < reset_timeout

\* a breaker whose failed trial call does not start a new reset window
BreakerAfterKeepsWindow(b, ok) ==
    IF ok THEN [state |-> "closed", fail_counter |-> 0, since_open |-> 0]
    ELSE IF b.state = "open"
         THEN [state |-> "open", fail_counter |-> b.fail_counter + 1,
               since_open |-> b.since_open]
         ELSE IF b.fail_counter + 1 >= fail_max
              THEN [state |-> "open", fail_counter |-> b.fail_counter + 1, since_open |-> 0]
              ELSE [state |-> "closed", fail_counter |-> b.fail_counter + 1, since_open |-> 0]

\* a breaker whose counter survives a successful call
BreakerAfterNoReset(b, ok) ==
    IF ok THEN [state |-> "closed", fail_counter |-> b.fail_counter, since_open |-> 0]
    ELSE IF b.state = "open" \/ b.fail_counter + 1 >= fail_max
         THEN [state |-> "open", fail_counter |-> b.fail_counter + 1, since_open |-> 0]
         ELSE [state |-> "closed", fail_counter |-> b.fail_counter + 1, since_open |-> 0]

\* pybreaker after a call that was let through.  Success: the counter is reset
\* (closed) or the breaker closes (half-open trial).  Failure: the counter is
\* incremented; a half-open trial re-opens the breaker, a closed breaker
\* opens when the counter has reached fail_max.  opened_at = now.
BreakerAfter(b, ok) ==
    IF ok THEN [state |-> "closed", fail_counter |-> 0, since_open |-> 0]
    ELSE IF b.state = "open" \/ b.fail_counter + 1 >= fail_max
         THEN [state |-> "open", fail_counter |-> b.fail_counter + 1, since_open |-> 0]
         ELSE [state |-> "closed", fail_counter |-> b.fail_counter + 1, since_open |-> 0]

\* line 150: @batch_latency.time() is the innermost decorator, under @retry:
\* it times the function that tenacity calls once per attempt, and observes
\* once per call of it, whether it returns or raises.
Observations(attempts) == attempts

\* a payload to which each span's elements are added at the front
RECURSIVE PayloadPrepended(_)
PayloadPrepended(b) ==
    IF b = <<>> THEN <<>> ELSE PayloadPrepended(Tail(b)) \o Head(b).span.resourceSpans

\* lines 155-157: payload['resourceSpans'], extended by the resourceSpans of
\* each span of the batch in turn
RECURSIVE payload(_)
payload(b) ==
    IF b = <<>> THEN <<>> ELSE Head(b).span.resourceSpans \o payload(Tail(b))

\* lines 155-162, once per attempt: the payloads handed to session.post
Posted(b, attempts) == [i \in 1..attempts |-> payload(b)]

\* send_batch as decorated (lines 144-168): the breaker around the retry
\* around the timer around the POST.
\* [ok, attempts, blocked, breaker, observations]
send_batch(b, outcomes) ==
    IF BreakerBlocks(b)
    THEN [ok |-> FALSE, attempts |-> 0, blocked |-> TRUE, breaker |-> b,
          observations |-> Observations(0)]
    ELSE LET r == retry_call(outcomes)
         IN  [ok |-> r.ok, attempts |-> r.attempts, blocked |-> FALSE,
              breaker |-> BreakerAfter(b, r.ok),
              observations |-> Observations(r.attempts)]

(* -------------------------- correlation map --------------------------- *)
\* lines 196-201: the keys of `seen`, in insertion order
RECURSIVE SeenKeys(_, _)
SeenKeys(b, acc) ==
    IF b = <<>> THEN acc
    ELSE LET g == Head(b).span._guid
             t == Head(b).span._trace_id
         IN  SeenKeys(Tail(b),
                      IF g # <<>> /\ t # <<>> /\ g \notin Range(acc)
                      THEN Append(acc, g) ELSE acc)

\* a map that keeps the trace id of the first span with that guid
RECURSIVE SeenValueFirst(_, _)
SeenValueFirst(b, g) ==
    IF Head(b).span._guid = g THEN Head(b).span._trace_id
    ELSE SeenValueFirst(Tail(b), g)

\* seen[g]: the trace id of the last span of the batch with that guid
RECURSIVE SeenValue(_, _)
SeenValue(b, g) ==
    IF b[Len(b)].span._guid = g THEN b[Len(b)].span._trace_id
    ELSE SeenValue(SubSeq(b, 1, Len(b) - 1), g)

\* line 208
metric_name(t) ==
    IF Head(t) = "1" THEN "uberAgent:logonTraceMap" ELSE "uberAgent:logoffTraceMap"

\* a correlation loop that writes one point per span
PointsPerSpan(b) ==
    [i \in 1..Len(b) |->
        [metric |-> metric_name(b[i].span._trace_id),
         guid |-> b[i].span._guid, trace_id |-> b[i].span._trace_id]]

\* lines 207-210: the points of `seen`, in the order they are written
Points(b) ==
    LET keys == SeenKeys(b, <<>>)
    IN  [i \in 1..Len(keys) |->
            [metric |-> metric_name(SeenValue(b, keys[i])),
             guid |-> keys[i], trace_id |-> SeenValue(b, keys[i])]]


(* ------------------------------ exporter ------------------------------ *)
\* The process runs until the main thread returns (line 302): the exporter,
\* the workers and the readers are daemon threads (lines 140, 272, 294).
Running == acc_pc # "exited"

\* The exporter is collecting a batch: `start` is set and the clock is read.
Collecting == exp_pc \in {"loop_check", "timeout_arg", "get_more"}

\* The arrivals before any span was put.  A paced scenario follows the time
\* between successive puts: gap is the ticks since the last put, slow says
\* that every put so far came more than BATCH_TIMEOUT after the one before,
\* apart that every put so far found span_queue empty and the exporter not
\* collecting.
NoArrivals(open, paced) ==
    [open |-> open, n |-> 0, paced |-> paced, gap |-> 0, slow |-> TRUE,
     apart |-> TRUE]

\* span_queue.put(span) returns (line 237), as the arrivals see it
BurstAfterPut ==
    [burst EXCEPT
        !.n = IF burst.open THEN @ + 1 ELSE @,
        !.gap = 0,
        !.slow = IF burst.paced THEN @ /\ (nspans = 0 \/ burst.gap > BATCH_TIMEOUT)
                 ELSE @,
        !.apart = IF burst.paced THEN @ /\ span_queue = <<>> /\ ~Collecting ELSE @]

\* The arrivals' clock runs while it is below the values it is compared to.
GapRuns == burst.paced /\ nspans > 0 /\ burst.gap <= BATCH_TIMEOUT

\* The acceptor's, the readers' and the workers' state.
ThreadsUnchanged ==
    UNCHANGED <<client, acc_pc, rd_pc, buf, got, cuts, enq, nlines, wk_pc,
                wk_line, wk_span, rd_line, put_waited>>

IngestUnchanged ==
    /\ UNCHANGED <<recv_queue, records_received, records_parsed>>
    /\ ThreadsUnchanged

ExportHistoryUnchanged ==
    UNCHANGED <<breaker, batches_sent, export_failures, last, consec_fail,
                dispatched, burst>>

\* an exporter that goes on with the batch of the cycle before
BatchCarriedOver == batch

\* line 173: batch = []
NewBatch == <<>>

\* line 172: while not shutdown_event.is_set(); line 173: batch = []
ExpTop ==
    /\ Running
    /\ exp_pc = "top"
    /\ exp_pc' = IF shutdown_event THEN "stopped" ELSE "get_first"
    /\ batch' = NewBatch
    /\ UNCHANGED <<QUEUE_MAXSIZE, collector, built, BATCH_SIZE, BATCH_TIMEOUT, shutdown_event, at_shutdown, span_queue, feed,
                   nspans, elapsed, span_queue_size, gauge_set_by>>
    /\ IngestUnchanged /\ ExportHistoryUnchanged

\* an exporter that puts the span it dequeued in front of the others
BatchPrepend(b, span) == <<span>> \o b

\* lines 176 and 180: batch.append(span)
BatchAppend(b, span) == Append(b, span)

\* lines 175-177: span_queue.get(timeout=1) returns a span; start = time.time()
ExpGetFirst ==
    /\ Running
    /\ exp_pc = "get_first"
    /\ span_queue # <<>>
    /\ batch' = BatchAppend(batch, Head(span_queue))
    /\ span_queue' = Tail(span_queue)
    /\ elapsed' = 0
    /\ exp_pc' = "loop_check"
    /\ UNCHANGED <<QUEUE_MAXSIZE, collector, built, BATCH_SIZE, BATCH_TIMEOUT, shutdown_event, at_shutdown, feed, nspans,
                   span_queue_size, gauge_set_by>>
    /\ IngestUnchanged /\ ExportHistoryUnchanged

\* lines 185-188: the get timed out on an empty queue; continue
ExpGetFirstEmpty ==
    /\ Running
    /\ exp_pc = "get_first"
    /\ span_queue = <<>>
    /\ exp_pc' = "top"
    /\ UNCHANGED <<QUEUE_MAXSIZE, collector, built, BATCH_SIZE, BATCH_TIMEOUT, shutdown_event, at_shutdown, span_queue, feed,
                   nspans, batch, elapsed, span_queue_size, gauge_set_by>>
    /\ IngestUnchanged /\ ExportHistoryUnchanged

\* a loop condition that lets the batch grow one span past BATCH_SIZE
KeepCollectingOneMore == Len(batch) <= BATCH_SIZE /\ elapsed < BATCH_TIMEOUT

\* line 178: len(batch) < BATCH_SIZE and (time.time() - start) < BATCH_TIMEOUT
KeepCollecting == Len(batch) < BATCH_SIZE /\ elapsed < BATCH_TIMEOUT

ExpLoopCheck ==
    /\ Running
    /\ exp_pc = "loop_check"
    /\ exp_pc' = IF KeepCollecting THEN "timeout_arg" ELSE "dispatch"
    /\ UNCHANGED <<QUEUE_MAXSIZE, collector, built, BATCH_SIZE, BATCH_TIMEOUT, shutdown_event, at_shutdown, span_queue, feed,
                   nspans, batch, elapsed, span_queue_size, gauge_set_by>>
    /\ IngestUnchanged /\ ExportHistoryUnchanged

\* line 180: the argument BATCH_TIMEOUT - (time.time()-start) is computed from
\* a second reading of the clock; queue.get raises ValueError on a negative
\* timeout, which no handler of run catches.
ExpTimeoutArg ==
    /\ Running
    /\ exp_pc = "timeout_arg"
    /\ exp_pc' = IF BATCH_TIMEOUT - elapsed < 0 THEN "dead" ELSE "get_more"
    /\ UNCHANGED <<QUEUE_MAXSIZE, collector, built, BATCH_SIZE, BATCH_TIMEOUT, shutdown_event, at_shutdown, span_queue, feed,
                   nspans, batch, elapsed, span_queue_size, gauge_set_by>>
    /\ IngestUnchanged /\ ExportHistoryUnchanged

\* line 180: the get returns a span
ExpGetMore ==
    /\ Running
    /\ exp_pc = "get_more"
    /\ span_queue # <<>>
    /\ batch' = BatchAppend(batch, Head(span_queue))
    /\ span_queue' = Tail(span_queue)
    /\ exp_pc' = "loop_check"
    /\ UNCHANGED <<QUEUE_MAXSIZE, collector, built, BATCH_SIZE, BATCH_TIMEOUT, shutdown_event, at_shutdown, feed, nspans,
                   elapsed, span_queue_size, gauge_set_by>>
    /\ IngestUnchanged /\ ExportHistoryUnchanged

\* a get that gives up as soon as it finds the queue empty
GetTimedOutAtOnce == span_queue = <<>>

\* queue.get(timeout=t): Empty once the queue has stayed empty up to the
\* deadline, which is no earlier than start + BATCH_TIMEOUT
GetTimedOut == span_queue = <<>> /\ elapsed >= BATCH_TIMEOUT

\* lines 181-184: queue.Empty ends the collection
ExpGetMoreEmpty ==
    /\ Running
    /\ exp_pc = "get_more"
    /\ GetTimedOut
    /\ exp_pc' = "dispatch"
    /\ UNCHANGED <<QUEUE_MAXSIZE, collector, built, BATCH_SIZE, BATCH_TIMEOUT, shutdown_event, at_shutdown, span_queue, feed,
                   nspans, batch, elapsed, span_queue_size, gauge_set_by>>
    /\ IngestUnchanged /\ ExportHistoryUnchanged

BatchSeqs(b) == {b[i].seq : i \in 1..Len(b)}

\* The exporter has dequeued the spans of `batch` (lines 175-180) and the call
\* of send_batch for them (line 194) has not returned or raised yet.
HoldsBatch == exp_pc \in {"loop_check", "timeout_arg", "get_more", "dispatch"}

\* Nothing was held when the flag was set, or the flag is not set; a scenario
\* that tracks it records the spans held.
NothingHeld(track) == [track |-> track, held |-> {}, accepted |-> {}, blocked |-> {}]

\* span_queue_size.set(...) called by a thread (lines 222 and 240); "off" in
\* a scenario that does not follow the calls, "none" before the first call.
GaugeSetBy(thread) == IF gauge_set_by = "off" THEN "off" ELSE thread

\* A scenario that follows neither.
Untracked ==
    /\ at_shutdown = NothingHeld(FALSE)
    /\ gauge_set_by = "off"

\* lines 217-221: the except clause runs, once, when send_batch or a sink
\* write raised
FailureInc(sent_ok, raised) == IF ~sent_ok \/ raised THEN 1 ELSE 0

\* lines 196-210 for a sent batch, nothing for a failed one
PointsToWrite(b, sent_ok) == IF sent_ok THEN Points(b) ELSE <<>>

\* an exporter that puts the spans of a failed batch back on the queue
QueueWithRetry(q, b, sent_ok) == IF sent_ok THEN q ELSE q \o b

\* lines 217-221: a failed batch is dropped; nothing touches span_queue
QueueAfterDispatch(q, b, sent_ok) == q

\* lines 190-222: send the batch, count it, write the correlation points,
\* count a failure if anything raised, republish the queue depth.
\* raise_at = 0: no write raises; raise_at = j: the j-th write raises.
ExpDispatch ==
    /\ Running
    /\ exp_pc = "dispatch"
    /\ \E outcomes \in collector.posts :
         LET r == send_batch(breaker, outcomes)
             pts == PointsToWrite(batch, r.ok)
         IN  \E raise_at \in (IF collector.sink_raises THEN 0..Len(pts) ELSE {0}) :
               LET raised == raise_at > 0
                   issued == IF raised THEN SubSeq(pts, 1, raise_at) ELSE pts
               IN  /\ breaker' = r.breaker
                   /\ batches_sent' = batches_sent + (IF r.ok THEN 1 ELSE 0)
                   /\ export_failures' = export_failures + FailureInc(r.ok, raised)
                   /\ consec_fail' = IF r.ok THEN 0 ELSE consec_fail + 1
                   /\ dispatched' = dispatched \cup BatchSeqs(batch)
                   /\ span_queue' = QueueAfterDispatch(span_queue, batch, r.ok)
                   /\ span_queue_size' = Len(span_queue')
                   /\ gauge_set_by' = GaugeSetBy("exporter")
                   /\ last' = [batch |-> batch, ok |-> r.ok, attempts |-> r.attempts,
                               blocked |-> r.blocked, outcomes |-> SubSeq(outcomes, 1, r.attempts),
                               writes |-> issued, raised |-> raised,
                               observations |-> r.observations,
                               posted |-> Posted(batch, r.attempts),
                               fresh |-> BatchSeqs(batch) \cap dispatched = {}]
    /\ exp_pc' = "top"
    /\ UNCHANGED <<QUEUE_MAXSIZE, collector, built, BATCH_SIZE, BATCH_TIMEOUT, shutdown_event, at_shutdown, feed, nspans, batch,
                   elapsed>>
    /\ IngestUnchanged
    /\ UNCHANGED burst

Exporter ==
    \/ ExpTop \/ ExpGetFirst \/ ExpGetFirstEmpty \/ ExpLoopCheck
    \/ ExpTimeoutArg \/ ExpGetMore \/ ExpGetMoreEmpty \/ ExpDispatch

(* ------------------------- clock and signals -------------------------- *)
\* One tick of the clock: the collection window and the breaker's reset
\* window both age.  Readings past the values the code compares against are
\* not told apart.
Tick ==
    /\ Running
    /\ \/ Collecting /\ elapsed <= BATCH_TIMEOUT
       \/ breaker.state = "open" /\ breaker.since_open < reset_timeout
       \/ burst.open /\ burst.n > 0
       \/ GapRuns
    /\ burst' = [burst EXCEPT !.open = IF burst.n > 0 THEN FALSE ELSE @,
                              !.gap = IF GapRuns THEN @ + 1 ELSE @]
    /\ elapsed' = IF Collecting /\ elapsed <= BATCH_TIMEOUT THEN elapsed + 1 ELSE elapsed
    /\ breaker' = IF breaker.state = "open" /\ breaker.since_open < reset_timeout
                  THEN [breaker EXCEPT !.since_open = @ + 1] ELSE breaker
    /\ UNCHANGED <<QUEUE_MAXSIZE, collector, built, BATCH_SIZE, BATCH_TIMEOUT, shutdown_event, at_shutdown, recv_queue, span_queue,
                   feed, nspans, exp_pc, batch, records_received, records_parsed,
                   batches_sent, export_failures, span_queue_size, gauge_set_by, last,
                   consec_fail, dispatched>>
    /\ ThreadsUnchanged

\* lines 278-283: SIGINT / SIGTERM
shutdown ==
    /\ Running
    /\ ~shutdown_event
    /\ shutdown_event' = TRUE
    /\ at_shutdown' = IF at_shutdown.track
                      THEN [track |-> TRUE,
                            held |-> IF HoldsBatch THEN BatchSeqs(batch) ELSE {},
                            accepted |-> {c \in DOMAIN rd_pc : rd_pc[c] \notin {"pending", "absent"}},
                            blocked |-> {c \in DOMAIN rd_pc : rd_pc[c] = "wait"}]
                      ELSE at_shutdown
    /\ UNCHANGED <<QUEUE_MAXSIZE, collector, built, BATCH_SIZE, BATCH_TIMEOUT, recv_queue, span_queue, feed, nspans,
                   exp_pc, batch, elapsed, breaker, records_received, records_parsed,
                   batches_sent, export_failures, span_queue_size, gauge_set_by, last,
                   consec_fail, dispatched, burst>>
    /\ ThreadsUnchanged

(* --------------------- the exporter fed with spans -------------------- *)
\* A worker's lines 232-240 for a line that parses: the record becomes a span
\* on span_queue (the put blocks while the queue is full).
FeedPut ==
    /\ Running
    /\ feed.left > 0
    /\ ~Full(span_queue)
    /\ \E record \in feed.records :
         span_queue' = Append(span_queue, [seq |-> nspans + 1, span |-> build_span(record)])
    /\ span_queue_size' = Len(span_queue')
    /\ gauge_set_by' = GaugeSetBy("worker")
    /\ nspans' = nspans + 1
    /\ records_received' = records_received + 1
    /\ records_parsed' = records_parsed + 1
    /\ feed' = [feed EXCEPT !.left = @ - 1]
    /\ burst' = BurstAfterPut
    /\ UNCHANGED <<QUEUE_MAXSIZE, collector, built, BATCH_SIZE, BATCH_TIMEOUT, shutdown_event, at_shutdown, recv_queue, exp_pc,
                   batch, elapsed, breaker, batches_sent, export_failures, last,
                   consec_fail, dispatched>>
    /\ ThreadsUnchanged

\* Records from which a span can be built: a logon and a logoff record of
\* one session, a logon record of another, and a record with no SessionGUID.
FeedRecords ==
    {[SessionGUID |-> <<"a">>, LogonProcType |-> "t"],
     [SessionGUID |-> <<"a">>, LogoffProcType |-> "t"],
     [SessionGUID |-> <<"b", "-", "c">>, LogonProcType |-> "t"],
     [LogonProcType |-> "t"]}

Conns == 1..MaxConns

Workers == 1..WORKER_COUNT

NoSpan == [_guid |-> <<>>, _trace_id |-> <<>>, event_type |-> ""]

\* No client connects.
NoClients ==
    /\ client = [chunks |-> {}, left |-> [c \in Conns |-> 0], track |-> FALSE]
    /\ rd_pc = [c \in Conns |-> "pending"]

NoBatch ==
    [batch |-> <<>>, ok |-> FALSE, attempts |-> 0, blocked |-> FALSE,
     outcomes |-> <<>>, writes |-> <<>>, raised |-> FALSE, observations |-> 0,
     posted |-> <<>>,
     fresh |-> TRUE]

InitCommon ==
    /\ shutdown_event = FALSE
    /\ recv_queue = <<>>
    /\ span_queue = <<>>
    /\ nspans = 0
    /\ exp_pc = "top"
    /\ batch = <<>>
    /\ elapsed = 0
    /\ breaker = [state |-> "closed", fail_counter |-> 0, since_open |-> 0]
    /\ records_received = 0
    /\ records_parsed = 0
    /\ batches_sent = 0
    /\ export_failures = 0
    /\ span_queue_size = 0
    /\ last = NoBatch
    /\ consec_fail = 0
    /\ dispatched = {}
    /\ acc_pc = "top"
    /\ buf = [c \in Conns |-> <<>>]
    /\ got = [c \in Conns |-> <<>>]
    /\ cuts = [c \in Conns |-> {}]
    /\ enq = [c \in Conns |-> <<>>]
    /\ nlines = 0
    /\ wk_pc = [w \in Workers |-> "top"]
    /\ wk_line = [w \in Workers |-> <<>>]
    /\ wk_span = [w \in Workers |-> NoSpan]
    /\ rd_line = [c \in Conns |-> <<>>]
    /\ put_waited = {}

PlainRecords == {[LogonProcType |-> "t"]}

\* Batching: every configuration of BATCH_SIZE and BATCH_TIMEOUT, spans of
\* records with no SessionGUID, the first burst of arrivals tracked.
InitExport ==
    /\ InitCommon
    /\ at_shutdown = NothingHeld(FALSE)
    /\ gauge_set_by = "none"
    /\ built = NoBuilt
    /\ BATCH_SIZE \in 0..MaxBatchSize
    /\ BATCH_TIMEOUT \in 0..MaxBatchTimeout
    /\ feed = [left |-> MaxFeed, records |-> PlainRecords]
    /\ burst = NoArrivals(TRUE, FALSE)
    /\ QUEUE_MAXSIZE = FeedQueue
    /\ collector = [posts |-> PostOutcomes, sink_raises |-> TRUE]
    /\ NoClients

NextExport == FeedPut \/ Exporter \/ Tick

SpecExport == InitExport /\ [][NextExport]_vars

\* Threads that are scheduled fairly: the exporter (line 294), the workers
\* that feed it (FeedPut) and the clock each take a step they can take.
FairExport == WF_vars(Exporter) /\ WF_vars(FeedPut) /\ WF_vars(Tick)

SpecFairExport == InitExport /\ [][NextExport]_vars /\ FairExport

\* Correlation: the largest BATCH_SIZE, a window of one tick, spans of every
\* kind of record.
InitSink ==
    /\ InitCommon
    /\ Untracked
    /\ built = NoBuilt
    /\ BATCH_SIZE = MaxBatchSize
    /\ BATCH_TIMEOUT = 1
    /\ feed = [left |-> MaxFeed, records |-> FeedRecords]
    /\ burst = NoArrivals(FALSE, FALSE)
    /\ QUEUE_MAXSIZE = FeedQueue
    /\ collector = [posts |-> PostOutcomes, sink_raises |-> TRUE]
    /\ NoClients

SpecSink == InitSink /\ [][NextExport]_vars

\* Correlation of a batch that holds a logon and a logoff span of one session
\* and a span of another session: BATCH_SIZE one more than in InitSink.
InitCorrelate ==
    /\ InitCommon
    /\ Untracked
    /\ built = NoBuilt
    /\ BATCH_SIZE = MaxBatchSize + 1
    /\ BATCH_TIMEOUT = 1
    /\ feed = [left |-> MaxFeed, records |-> FeedRecords]
    /\ burst = NoArrivals(FALSE, FALSE)
    /\ QUEUE_MAXSIZE = 0
    /\ collector = [posts |-> PostOutcomes, sink_raises |-> TRUE]
    /\ NoClients

SpecCorrelate == InitCorrelate /\ [][NextExport]_vars

\* The breaker: the largest configuration, BreakerFeed spans of records with
\* no SessionGUID.
InitBreaker ==
    /\ InitCommon
    /\ Untracked
    /\ built = NoBuilt
    /\ BATCH_SIZE = MaxBatchSize
    /\ BATCH_TIMEOUT = MaxBatchTimeout
    /\ feed = [left |-> BreakerFeed, records |-> PlainRecords]
    /\ burst = NoArrivals(FALSE, FALSE)
    /\ QUEUE_MAXSIZE = FeedQueue
    /\ collector = [posts |-> PostOutcomes, sink_raises |-> TRUE]
    /\ NoClients

SpecBreaker == InitBreaker /\ [][NextExport]_vars

\* Pacing: the largest BATCH_SIZE, every BATCH_TIMEOUT, the time between
\* successive puts followed.
InitPaced ==
    /\ InitCommon
    /\ Untracked
    /\ built = NoBuilt
    /\ BATCH_SIZE = MaxBatchSize
    /\ BATCH_TIMEOUT \in 0..MaxBatchTimeout
    /\ feed = [left |-> MaxFeed, records |-> PlainRecords]
    /\ burst = NoArrivals(FALSE, TRUE)
    /\ QUEUE_MAXSIZE = FeedQueue
    /\ collector = [posts |-> PostOutcomes, sink_raises |-> TRUE]
    /\ NoClients

SpecPaced == InitPaced /\ [][NextExport]_vars


(* ----------------------------- the clients ---------------------------- *)
\* The bytes on the wire: the line terminator, a blank, the text of a JSON
\* object, and text that is not JSON.
Whitespace == {" "}

Bytes == {"\n", " ", "{}", "x"}

\* A client that sends each line whole, in a chunk of its own.
LineChunks == {<<"{}", "\n">>, <<"x", "\n">>}

\* A client whose stream arrives cut anywhere.
AnyChunks == SeqsUpTo(Bytes, MaxChunk) \ {<<>>}

(* ------------------------------ acceptor ------------------------------ *)
ExporterUnchanged ==
    UNCHANGED <<QUEUE_MAXSIZE, collector, built, BATCH_SIZE, BATCH_TIMEOUT, feed, exp_pc, batch,
                elapsed, breaker, batches_sent, export_failures, last,
                consec_fail, dispatched>>

ReadersUnchanged ==
    UNCHANGED <<client, rd_pc, buf, got, cuts, enq, nlines, rd_line, recv_queue>>

WorkersUnchanged ==
    UNCHANGED <<wk_pc, wk_line, wk_span, records_received, records_parsed, nspans,
                span_queue, span_queue_size, gauge_set_by, burst>>

\* an acceptor that never looks at the flag
ListenerNeverStops == FALSE

\* line 268: while not shutdown_event.is_set()
ListenerStops == shutdown_event

\* an acceptor that serves a connection itself and is held while it is open
AcceptorServesInline == \E c \in Conns : rd_pc[c] \notin {"pending", "closed", "absent"}

\* line 272: the reader runs in a thread of its own, the acceptor does not
\* wait for it
AcceptorHeld == FALSE

\* line 268: while not shutdown_event.is_set(); line 275: server.close()
AccTop ==
    /\ Running
    /\ ~AcceptorHeld
    /\ acc_pc = "top"
    /\ acc_pc' = IF ListenerStops THEN "closed" ELSE "accept"
    /\ UNCHANGED <<shutdown_event, at_shutdown, put_waited>>
    /\ ExporterUnchanged /\ ReadersUnchanged /\ WorkersUnchanged

\* lines 270-272: accept returns a connection; its reader thread starts
Accept(c) ==
    /\ Running
    /\ ~AcceptorHeld
    /\ acc_pc = "accept"
    /\ rd_pc[c] = "pending"
    /\ rd_pc' = [rd_pc EXCEPT ![c] = "top"]
    /\ acc_pc' = "top"
    /\ UNCHANGED <<shutdown_event, at_shutdown, put_waited, client, buf, got, cuts, enq, nlines,
                   rd_line, recv_queue>>
    /\ ExporterUnchanged /\ WorkersUnchanged

\* lines 273-274: accept times out after one second
AcceptTimeout ==
    /\ Running
    /\ ~AcceptorHeld
    /\ acc_pc = "accept"
    /\ acc_pc' = "top"
    /\ UNCHANGED <<shutdown_event, at_shutdown, put_waited>>
    /\ ExporterUnchanged /\ ReadersUnchanged /\ WorkersUnchanged

socket_listener == AccTop \/ AcceptTimeout \/ \E c \in Conns : Accept(c)

(* ----------------------------- main thread ---------------------------- *)
QueueEmptyAlways(q) == TRUE

\* queue.empty()
QueueEmpty(q) == q = <<>>

\* line 300, left operand: not recv_queue.empty(); a non-empty queue sends the
\* main thread to sleep
MainCheckRecv ==
    /\ acc_pc = "closed"
    /\ acc_pc' = IF QueueEmpty(recv_queue) THEN "check_span" ELSE "sleep"
    /\ UNCHANGED <<shutdown_event, at_shutdown, put_waited>>
    /\ ExporterUnchanged /\ ReadersUnchanged /\ WorkersUnchanged

\* line 300, right operand: not span_queue.empty(); lines 301-302: both
\* queues were seen empty and the main thread returns
MainCheckSpan ==
    /\ acc_pc = "check_span"
    /\ acc_pc' = IF QueueEmpty(span_queue) THEN "exited" ELSE "sleep"
    /\ UNCHANGED <<shutdown_event, at_shutdown, put_waited>>
    /\ ExporterUnchanged /\ ReadersUnchanged /\ WorkersUnchanged

\* line 301: time.sleep(1) is over
MainSleep ==
    /\ acc_pc = "sleep"
    /\ acc_pc' = "closed"
    /\ UNCHANGED <<shutdown_event, at_shutdown, put_waited>>
    /\ ExporterUnchanged /\ ReadersUnchanged /\ WorkersUnchanged

main == socket_listener \/ MainCheckRecv \/ MainCheckSpan \/ MainSleep

(* ------------------------------- reader ------------------------------- *)
\* bytes.strip() is empty
Blank(line) == \A i \in 1..Len(line) : line[i] \in Whitespace

\* b'\n' in buf
HasNewline(b) == \E i \in 1..Len(b) : b[i] = "\n"

FirstNewline(b) == CHOOSE i \in 1..Len(b) : b[i] = "\n" /\ \A j \in 1..(i - 1) : b[j] # "\n"

\* line 253: buf.split(b'\n', 1)
SplitLine(b) ==
    LET i == FirstNewline(b)
    IN  [line |-> SubSeq(b, 1, i - 1), rest |-> SubSeq(b, i + 1, Len(b))]

BufAfterRecvFresh(b, data) == data

\* line 251: buf += data
BufAfterRecv(b, data) == b \o data

\* a reader that enqueues what is left in its buffer when it ends
QueueWithPartialLine(q, rest, c) ==
    IF Blank(rest) THEN q ELSE Append(q, [id |-> nlines + 1, conn |-> c, line |-> rest])

\* lines 256-259: the loop is left (recv returned b'', recv raised, the
\* shutdown flag was seen) and the socket closed; buf, a local, is dropped
\* with whatever follows its last newline, and nothing is put on recv_queue
QueueAfterClose(q, rest, c) == q

\* line 247: while not shutdown_event.is_set(); line 259: sock.close()
ReaderTop(c) ==
    /\ Running
    /\ rd_pc[c] = "top"
    /\ rd_pc' = [rd_pc EXCEPT ![c] = IF shutdown_event THEN "closed" ELSE "recv"]
    /\ recv_queue' = IF shutdown_event THEN QueueAfterClose(recv_queue, buf[c], c)
                     ELSE recv_queue
    /\ UNCHANGED <<shutdown_event, at_shutdown, put_waited, acc_pc, client, buf, got, cuts, enq,
                   nlines, rd_line>>
    /\ ExporterUnchanged /\ WorkersUnchanged

\* lines 248-251: recv returns data
ReaderRecv(c) ==
    /\ Running
    /\ rd_pc[c] = "recv"
    /\ \E data \in client.chunks :
         /\ Len(data) <= client.left[c]
         /\ client' = [client EXCEPT !.left[c] = @ - Len(data)]
         /\ buf' = [buf EXCEPT ![c] = BufAfterRecv(@, data)]
         /\ got' = IF client.track THEN [got EXCEPT ![c] = @ \o data] ELSE got
         /\ cuts' = IF client.track
                    THEN [cuts EXCEPT ![c] = @ \cup {Len(got[c]) + Len(data)}]
                    ELSE cuts
    /\ rd_pc' = [rd_pc EXCEPT ![c] = "split"]
    /\ UNCHANGED <<shutdown_event, at_shutdown, put_waited, acc_pc, enq, nlines, rd_line,
                   recv_queue>>
    /\ ExporterUnchanged /\ WorkersUnchanged

\* lines 248-250 and 256-259: recv returns b'' or raises; the socket is closed
ReaderClose(c) ==
    /\ Running
    /\ rd_pc[c] = "recv"
    /\ rd_pc' = [rd_pc EXCEPT ![c] = "closed"]
    /\ recv_queue' = QueueAfterClose(recv_queue, buf[c], c)
    /\ UNCHANGED <<shutdown_event, at_shutdown, put_waited, acc_pc, client, buf, got, cuts, enq,
                   nlines, rd_line>>
    /\ ExporterUnchanged /\ WorkersUnchanged

\* line 252: no b'\n' in buf
ReaderNoLine(c) ==
    /\ Running
    /\ rd_pc[c] = "split"
    /\ ~HasNewline(buf[c])
    /\ rd_pc' = [rd_pc EXCEPT ![c] = "top"]
    /\ UNCHANGED <<shutdown_event, at_shutdown, put_waited, acc_pc, client, buf, got, cuts, enq,
                   nlines, rd_line, recv_queue>>
    /\ ExporterUnchanged /\ WorkersUnchanged

\* lines 252-254: one line is cut off buf
ReaderLine(c) ==
    /\ Running
    /\ rd_pc[c] = "split"
    /\ HasNewline(buf[c])
    /\ LET s == SplitLine(buf[c])
       IN  /\ buf' = [buf EXCEPT ![c] = s.rest]
           /\ rd_line' = [rd_line EXCEPT ![c] = s.line]
           /\ rd_pc' = [rd_pc EXCEPT ![c] = IF Blank(s.line) THEN "split" ELSE "put"]
    /\ UNCHANGED <<shutdown_event, at_shutdown, put_waited, acc_pc, client, got, cuts, enq, nlines,
                   recv_queue>>
    /\ ExporterUnchanged /\ WorkersUnchanged

\* The line joins recv_queue.
Enqueue(c) ==
    /\ recv_queue' = Append(recv_queue, [id |-> nlines + 1, conn |-> c, line |-> rd_line[c]])
    /\ nlines' = nlines + 1
    /\ enq' = IF client.track THEN [enq EXCEPT ![c] = Append(@, rd_line[c])] ELSE enq
    /\ rd_pc' = [rd_pc EXCEPT ![c] = "split"]

\* line 255: recv_queue.put(line): the caller waits while the queue is full,
\* then the line joins the queue
ReaderPut(c) ==
    /\ Running
    /\ rd_pc[c] \in {"put", "wait"}
    /\ IF PutBlocks(recv_queue)
       THEN /\ rd_pc' = [rd_pc EXCEPT ![c] = "wait"]
            /\ UNCHANGED <<recv_queue, nlines, enq, put_waited>>
       ELSE /\ Enqueue(c)
            /\ put_waited' = IF rd_pc[c] = "wait"
                             THEN put_waited \cup {"recv_queue"}
                             ELSE put_waited
    /\ UNCHANGED <<shutdown_event, at_shutdown, acc_pc, client, buf, got, cuts, rd_line>>
    /\ ExporterUnchanged /\ WorkersUnchanged

handle_client(c) ==
    \/ ReaderTop(c)
    \/ ReaderRecv(c)
    \/ ReaderClose(c)
    \/ ReaderNoLine(c)
    \/ ReaderLine(c)
    \/ ReaderPut(c)

(* ------------------------------- worker ------------------------------- *)
\* The JSON texts among the bytes, and what each decodes to.
JsonTexts == {"{}", "5"}

\* a decoder for which every JSON text is an object
JsonKindObject(text) == "object"

JsonKind(text) == IF text = "{}" THEN "object" ELSE "number"

RECURSIVE StripLeft(_)
StripLeft(s) ==
    IF s # <<>> /\ Head(s) \in Whitespace THEN StripLeft(Tail(s)) ELSE s

RECURSIVE StripRight(_)
StripRight(s) ==
    IF s # <<>> /\ s[Len(s)] \in Whitespace THEN StripRight(SubSeq(s, 1, Len(s) - 1)) ELSE s

\* line 234: orjson.loads(line) decodes one JSON text, blanks around it allowed
orjson_loads(line) ==
    LET text == StripRight(StripLeft(line))
    IN  IF Len(text) = 1 /\ text[1] \in JsonTexts
        THEN [ok |-> TRUE, kind |-> JsonKind(text[1])]
        ELSE [ok |-> FALSE, kind |-> "none"]

ValidJson(line) == orjson_loads(line).ok

\* The record the object text decodes to.
Decoded(line) == built.record

\* lines 234-235: loads and build_span both return; build_span raises on a
\* decoded value with no .get, and on a record it cannot convert
ParsesLenient(line) == TRUE

Parses(line) ==
    /\ ValidJson(line)
    /\ orjson_loads(line).kind = "object"
    /\ Builds(Decoded(line))

\* line 226: while not shutdown_event.is_set()
WorkerTop(w) ==
    /\ Running
    /\ wk_pc[w] = "top"
    /\ wk_pc' = [wk_pc EXCEPT ![w] = IF shutdown_event THEN "stopped" ELSE "get"]
    /\ UNCHANGED <<shutdown_event, at_shutdown, put_waited, acc_pc, wk_line, wk_span,
                   records_received, records_parsed, nspans, span_queue,
                   span_queue_size, gauge_set_by, burst>>
    /\ ExporterUnchanged /\ ReadersUnchanged

\* lines 228-240: a line is dequeued, counted, decoded and built into a span
WorkerGet(w) ==
    /\ Running
    /\ wk_pc[w] = "get"
    /\ recv_queue # <<>>
    /\ LET line == Head(recv_queue).line
       IN  /\ recv_queue' = QueueAfterGet(recv_queue)
           /\ records_received' = records_received + 1
           /\ wk_line' = [wk_line EXCEPT ![w] = line]
           /\ IF Parses(line)
              THEN /\ wk_span' = [wk_span EXCEPT ![w] = build_span(Decoded(line))]
                   /\ records_parsed' = records_parsed + 1
                   /\ wk_pc' = [wk_pc EXCEPT ![w] = "put"]
                   /\ UNCHANGED <<span_queue_size, gauge_set_by>>
              ELSE /\ span_queue_size' = Len(span_queue)
                   /\ gauge_set_by' = GaugeSetBy("worker")
                   /\ wk_pc' = [wk_pc EXCEPT ![w] = "top"]
                   /\ UNCHANGED <<wk_span, records_parsed>>
    /\ UNCHANGED <<shutdown_event, at_shutdown, put_waited, acc_pc, nspans, span_queue, burst,
                   client, rd_pc, buf, got, cuts, enq, nlines, rd_line>>
    /\ ExporterUnchanged

\* lines 228-230: queue.Empty after one second
WorkerGetEmpty(w) ==
    /\ Running
    /\ wk_pc[w] = "get"
    /\ recv_queue = <<>>
    /\ wk_pc' = [wk_pc EXCEPT ![w] = "top"]
    /\ UNCHANGED <<shutdown_event, at_shutdown, put_waited, acc_pc, wk_line, wk_span,
                   records_received, records_parsed, nspans, span_queue,
                   span_queue_size, gauge_set_by, burst>>
    /\ ExporterUnchanged /\ ReadersUnchanged

\* The span joins span_queue; line 240 sets the gauge.
EnqueueSpan(w) ==
    /\ span_queue' = Append(span_queue, [seq |-> nspans + 1, span |-> wk_span[w]])
    /\ nspans' = nspans + 1
    /\ span_queue_size' = Len(span_queue')
    /\ gauge_set_by' = GaugeSetBy("worker")
    /\ burst' = BurstAfterPut
    /\ wk_pc' = [wk_pc EXCEPT ![w] = "top"]

\* lines 237 and 240: span_queue.put(span): the caller waits while the queue
\* is full, then the span joins the queue
WorkerPut(w) ==
    /\ Running
    /\ wk_pc[w] \in {"put", "wait"}
    /\ IF PutBlocks(span_queue)
       THEN /\ wk_pc' = [wk_pc EXCEPT ![w] = "wait"]
            /\ UNCHANGED <<span_queue, nspans, span_queue_size, gauge_set_by, burst, put_waited>>
       ELSE /\ EnqueueSpan(w)
            /\ put_waited' = IF wk_pc[w] = "wait"
                             THEN put_waited \cup {"span_queue"}
                             ELSE put_waited
    /\ UNCHANGED <<shutdown_event, at_shutdown, acc_pc, wk_line, wk_span, records_received,
                   records_parsed>>
    /\ ExporterUnchanged /\ ReadersUnchanged

worker(w) ==
    \/ WorkerTop(w)
    \/ WorkerGet(w)
    \/ WorkerGetEmpty(w)
    \/ WorkerPut(w)

(* ---------------------------- the pipeline ---------------------------- *)
\* A collector that answers every POST with a 2xx.
HealthyPosts == {outcomes \in PostOutcomes : outcomes[1] = "2xx"}

\* Every QUEUE_MAXSIZE, the largest batch configuration, clients that send
\* whole lines of every kind.
Init ==
    /\ InitCommon
    /\ Untracked
    /\ built = NoBuilt
    /\ QUEUE_MAXSIZE \in 0..MaxQueue
    /\ BATCH_SIZE = MaxBatchSize
    /\ BATCH_TIMEOUT = MaxBatchTimeout
    /\ feed = [left |-> 0, records |-> {}]
    /\ burst = NoArrivals(FALSE, FALSE)
    /\ client = [chunks |-> LineChunks,
                 left |-> [c \in Conns |-> IF c <= PipelineConns THEN 2 * MaxLines ELSE 0],
                 track |-> FALSE]
    /\ rd_pc = [c \in Conns |-> IF c <= PipelineConns THEN "pending" ELSE "absent"]
    /\ collector = [posts |-> HealthyPosts, sink_raises |-> FALSE]

Next ==
    \/ main
    \/ \E c \in Conns : handle_client(c)
    \/ \E w \in Workers : worker(w)
    \/ Exporter
    \/ Tick
    \/ shutdown

Spec == Init /\ [][Next]_vars

\* Framing: one accepted connection whose stream arrives cut anywhere, the
\* lines it enqueues recorded.
InitFraming ==
    /\ InitCommon
    /\ Untracked
    /\ built = NoBuilt
    /\ QUEUE_MAXSIZE = FeedQueue
    /\ BATCH_SIZE = MaxBatchSize
    /\ BATCH_TIMEOUT = MaxBatchTimeout
    /\ feed = [left |-> 0, records |-> {}]
    /\ burst = NoArrivals(FALSE, FALSE)
    /\ client = [chunks |-> AnyChunks,
                 left |-> [c \in Conns |-> IF c = 1 THEN MaxStream ELSE 0],
                 track |-> TRUE]
    /\ rd_pc = [c \in Conns |-> IF c = 1 THEN "top" ELSE "pending"]
    /\ collector = [posts |-> HealthyPosts, sink_raises |-> FALSE]

NextFraming == (\E c \in Conns : handle_client(c)) \/ shutdown

SpecFraming == InitFraming /\ [][NextFraming]_vars

\* Accepting: every client connects and sends whole lines; nothing dequeues
\* them, so that a reader stays blocked once the bounded recv_queue is full;
\* what each reader enqueues is recorded, and what was the case when the flag
\* was set.
InitAccept ==
    /\ InitCommon
    /\ at_shutdown = NothingHeld(TRUE)
    /\ gauge_set_by = "off"
    /\ built = NoBuilt
    /\ QUEUE_MAXSIZE \in 0..MaxQueue
    /\ BATCH_SIZE = MaxBatchSize
    /\ BATCH_TIMEOUT = MaxBatchTimeout
    /\ feed = [left |-> 0, records |-> {}]
    /\ burst = NoArrivals(FALSE, FALSE)
    /\ client = [chunks |-> LineChunks, left |-> [c \in Conns |-> 2 * MaxLines],
                 track |-> TRUE]
    /\ rd_pc = [c \in Conns |-> "pending"]
    /\ collector = [posts |-> HealthyPosts, sink_raises |-> FALSE]

NextAccept == socket_listener \/ (\E c \in Conns : handle_client(c)) \/ shutdown

SpecAccept == InitAccept /\ [][NextAccept]_vars

\* Ordering: every connection is open and sends whole lines of both kinds
\* into an unbounded recv_queue, what each reader enqueues is recorded; the
\* exporter is fed with spans on the side and a healthy collector takes them.
InitOrder ==
    /\ InitCommon
    /\ Untracked
    /\ built = NoBuilt
    /\ QUEUE_MAXSIZE = 0
    /\ BATCH_SIZE = MaxBatchSize
    /\ BATCH_TIMEOUT = MaxBatchTimeout
    /\ feed = [left |-> MaxBatchSize, records |-> PlainRecords]
    /\ burst = NoArrivals(FALSE, FALSE)
    /\ client = [chunks |-> LineChunks, left |-> [c \in Conns |-> 2 * MaxLines],
                 track |-> TRUE]
    /\ rd_pc = [c \in Conns |-> "top"]
    /\ collector = [posts |-> HealthyPosts, sink_raises |-> FALSE]

NextOrder == (\E c \in Conns : handle_client(c)) \/ FeedPut \/ Exporter \/ Tick

SpecOrder == InitOrder /\ [][NextOrder]_vars

\* Shutdown: one client that sends valid lines, a healthy collector; every
\* thread of the process is scheduled again and again, and the clock advances.
InitShutdown ==
    /\ InitCommon
    /\ at_shutdown = NothingHeld(TRUE)
    /\ gauge_set_by = "off"
    /\ built = NoBuilt
    /\ QUEUE_MAXSIZE = FeedQueue
    /\ BATCH_SIZE = MaxBatchSize
    /\ BATCH_TIMEOUT = MaxBatchTimeout
    /\ feed = [left |-> 0, records |-> {}]
    /\ burst = NoArrivals(FALSE, FALSE)
    /\ client = [chunks |-> {<<"{}", "\n">>},
                 left |-> [c \in Conns |-> IF c = 1 THEN 2 * MaxLines ELSE 0],
                 track |-> FALSE]
    /\ rd_pc = [c \in Conns |-> IF c = 1 THEN "pending" ELSE "absent"]
    /\ collector = [posts |-> HealthyPosts, sink_raises |-> FALSE]

\* The steps a reader takes on its own, without the client.
ReaderRuns(c) == ReaderTop(c) \/ ReaderNoLine(c) \/ ReaderLine(c) \/ ReaderPut(c)

Fairness ==
    /\ WF_vars(main)
    /\ WF_vars(Exporter)
    /\ WF_vars(Tick)
    /\ \A w \in Workers : WF_vars(worker(w))
    /\ \A c \in Conns : WF_vars(ReaderRuns(c))

SpecShutdown == InitShutdown /\ [][Next]_vars /\ Fairness

(* --------------------------- the span builder ------------------------- *)
\* The integers a record holds: the small ones, the largest one of sixteen
\* hexadecimal digits and the next, and a negative one.
U64Max == [neg |-> FALSE,
           digits |-> <<1, 8, 4, 4, 6, 7, 4, 4, 0, 7, 3, 7, 0, 9, 5, 5, 1, 6, 1, 5>>]

Over64 == [neg |-> FALSE,
           digits |-> <<1, 8, 4, 4, 6, 7, 4, 4, 0, 7, 3, 7, 0, 9, 5, 5, 1, 6, 1, 6>>]

MinusOne == [neg |-> TRUE, digits |-> <<1>>]

Nums == {[neg |-> FALSE, digits |-> Dec(k)] : k \in 0..MaxProcID}
            \cup {U64Max, Over64, MinusOne}

\* The session identifiers: short ones over a lowercase hexadecimal letter,
\* an uppercase one and the dash, and one of TraceLen characters.
LongGuid == [i \in 1..TraceLen |-> "b"]

\* Another SessionGUID of TraceLen hexadecimal digits: LongGuid with another
\* last digit.
LongGuidOther == [i \in 1..TraceLen |-> IF i = TraceLen THEN "c" ELSE "b"]

Guids == SeqsUpTo({"a", "A", "-"}, MaxGuidLen) \cup {LongGuid, LongGuidOther}

Absent == [x \in {} |-> x]

\* A record field that is there or not.
Field(key, present, value) == IF present THEN key :> value ELSE Absent

\* Records that differ in ProcID, in ProcParentID and in the event.
IdRecords ==
    {Field("ProcID", hasPid, pid) @@ Field("ProcParentID", hasPpid, ppid)
        @@ Field("LogoffProcType", logoff, "t") @@ [LogonProcType |-> "t"] :
        hasPid \in BOOLEAN, pid \in Nums, hasPpid \in BOOLEAN, ppid \in Nums,
        logoff \in BOOLEAN}

\* Records that differ in SessionGUID and in the event, and in other fields.
TraceRecords ==
    {Field("SessionGUID", hasGuid, guid) @@ Field("LogoffProcType", logoff, "t")
        @@ Field("ProcName", hasName, <<"a">>) @@ Field("ProcID", hasPid, Over64)
        @@ [LogonProcType |-> "t"] :
        hasGuid \in BOOLEAN, guid \in Guids, logoff \in BOOLEAN,
        hasName \in BOOLEAN, hasPid \in BOOLEAN}

\* lines 74-135: build_span(record), called when the clock reads epoch_s
BuildSpan ==
    /\ ~built.done
    /\ \E epoch_s \in 0..MaxEpoch :
         built' = [record |-> built.record, done |-> TRUE, epoch_s |-> epoch_s,
                   ids |-> span_ids(built.record),
                   tags |-> span_tags(built.record)]
    /\ UNCHANGED <<BATCH_SIZE, BATCH_TIMEOUT, shutdown_event, at_shutdown, recv_queue, span_queue,
                   feed, nspans, exp_pc, batch, elapsed, breaker, records_received,
                   records_parsed, batches_sent, export_failures, span_queue_size, gauge_set_by,
                   last, consec_fail, dispatched, burst, QUEUE_MAXSIZE, collector>>
    /\ ThreadsUnchanged

InitBuilder ==
    /\ InitCommon
    /\ Untracked
    /\ QUEUE_MAXSIZE = FeedQueue
    /\ BATCH_SIZE = MaxBatchSize
    /\ BATCH_TIMEOUT = MaxBatchTimeout
    /\ feed = [left |-> 0, records |-> {}]
    /\ burst = NoArrivals(FALSE, FALSE)
    /\ collector = [posts |-> HealthyPosts, sink_raises |-> FALSE]
    /\ NoClients

\* build_span on a record of IdRecords
InitSpan ==
    /\ InitBuilder
    /\ \E record \in IdRecords :
         built = [record |-> record, done |-> FALSE, epoch_s |-> 0, ids |-> NoIds,
                  tags |-> NoTags]

SpecSpan == InitSpan /\ [][BuildSpan]_vars

\* build_span on a record of TraceRecords
InitTrace ==
    /\ InitBuilder
    /\ \E record \in TraceRecords :
         built = [record |-> record, done |-> FALSE, epoch_s |-> 0, ids |-> NoIds,
                  tags |-> NoTags]

SpecTrace == InitTrace /\ [][BuildSpan]_vars

\* Records that differ in ProcName, in LogonProcType and LogoffProcType (each
\* there or not), and in SessionGUID.
ProcNames == {"explorer.exe", "cmd.exe"}

ProcTypes == {"Interactive", "Service"}

TagRecords ==
    {Field("ProcName", hasName, name) @@ Field("LogonProcType", hasLogon, logon)
        @@ Field("LogoffProcType", hasLogoff, logoff)
        @@ Field("SessionGUID", hasGuid, <<"a">>) :
        hasName \in BOOLEAN, name \in ProcNames, hasLogon \in BOOLEAN,
        logon \in ProcTypes, hasLogoff \in BOOLEAN, logoff \in ProcTypes,
        hasGuid \in BOOLEAN}

\* build_span on a record of TagRecords
InitTags ==
    /\ InitBuilder
    /\ \E record \in TagRecords :
         built = [record |-> record, done |-> FALSE, epoch_s |-> 0, ids |-> NoIds,
                  tags |-> NoTags]

SpecTags == InitTags /\ [][BuildSpan]_vars

\* Records in which each optional field is there or not, every field that is
\* there holding a value of its type.
OptionalRecords ==
    {Field("ProcID", hasPid, [neg |-> FALSE, digits |-> <<1, 0, 0>>])
        @@ Field("ProcParentID", hasPpid, [neg |-> FALSE, digits |-> <<7>>])
        @@ Field("ProcLifetimeMs", hasLife, [neg |-> FALSE, digits |-> <<5, 0>>])
        @@ Field("SessionGUID", hasGuid, <<"a">>)
        @@ Field("ProcName", hasName, "explorer.exe")
        @@ Field("ProcUser", hasUser, "alice")
        @@ Field("LogonProcType", hasLogon, "Interactive")
        @@ Field("LogoffProcType", hasLogoff, "Service") :
        hasPid \in BOOLEAN, hasPpid \in BOOLEAN, hasLife \in BOOLEAN,
        hasGuid \in BOOLEAN, hasName \in BOOLEAN, hasUser \in BOOLEAN,
        hasLogon \in BOOLEAN, hasLogoff \in BOOLEAN}

\* Records with a value build_span raises on: a numeric field that is no
\* number (lines 76-82, 117-126), a SessionGUID that is no string (line 88).
BadRecords ==
    {[LogonProcType |-> "t", ProcID |-> NonNumeric],
     [LogonProcType |-> "t", ProcParentID |-> NonNumeric],
     [LogonProcType |-> "t", ProcLifetimeMs |-> NonNumeric],
     [LogonProcType |-> "t", ProcNetKBPS |-> NonNumeric],
     [LogonProcType |-> "t", SessionGUID |-> NotAString]}

\* The lines of LineChunks, and a line that is a JSON number.
JsonChunks == LineChunks \cup {<<"5", "\n">>}

\* Records: one accepted connection sends lines of JsonChunks to the workers,
\* the object among them standing for a record of OptionalRecords or of
\* BadRecords.
InitRecords ==
    /\ InitCommon
    /\ Untracked
    /\ \E record \in OptionalRecords \cup BadRecords :
         built = [record |-> record, done |-> FALSE, epoch_s |-> 0, ids |-> NoIds,
                  tags |-> NoTags]
    /\ QUEUE_MAXSIZE = 0
    /\ BATCH_SIZE = MaxBatchSize
    /\ BATCH_TIMEOUT = MaxBatchTimeout
    /\ feed = [left |-> 0, records |-> {}]
    /\ burst = NoArrivals(FALSE, FALSE)
    /\ client = [chunks |-> JsonChunks,
                 left |-> [c \in Conns |-> IF c = 1 THEN 2 * MaxLines ELSE 0],
                 track |-> FALSE]
    /\ rd_pc = [c \in Conns |-> IF c = 1 THEN "top" ELSE "absent"]
    /\ collector = [posts |-> HealthyPosts, sink_raises |-> FALSE]

NextRecords == (\E c \in Conns : handle_client(c)) \/ (\E w \in Workers : worker(w))

SpecRecords == InitRecords /\ [][NextRecords]_vars

(* ------------------------------- claims ------------------------------- *)
\* A step of the exporter that processes a batch (lines 190-222).
DispatchStep == exp_pc = "dispatch" /\ exp_pc' = "top"

Max(a, b) == IF a >= b THEN a ELSE b

\* C1: once fail_max consecutive send_batch calls have failed, every call made
\* before reset_timeout has elapsed since the breaker opened fails without a
\* POST, and the exporter counts exactly one export failure for that batch.
C1_OpenBreakerFailsFast ==
    [][(DispatchStep /\ consec_fail >= fail_max /\ breaker.since_open < reset_timeout)
        => /\ last'.attempts = 0
           /\ ~last'.ok
           /\ export_failures' = export_failures + 1
           /\ batches_sent' = batches_sent]_vars

\* C1 witness: a batch was rejected by the open breaker after fail_max failures.
C1_Witness ==
    /\ last.blocked /\ last.attempts = 0
    /\ consec_fail > fail_max
    /\ export_failures > fail_max

\* C2: a send_batch call that the breaker lets through makes between 1 and
\* stop_after_attempt POST attempts, every attempt before the last one raised,
\* the call succeeds exactly when its last attempt returned, and it fails only
\* with the stop_after_attempt-th attempt.
C2_AtMostThreeAttempts ==
    (last.batch # <<>> /\ ~last.blocked)
        => /\ last.attempts \in 1..stop_after_attempt
           /\ Len(last.outcomes) = last.attempts
           /\ \A i \in 1..(last.attempts - 1) : last.outcomes[i] = "error"
           /\ last.ok <=> last.outcomes[last.attempts] = "2xx"
           /\ ~last.ok => last.attempts = stop_after_attempt

\* C2 witness: a call that succeeded on its last permitted attempt.
C2_Witness ==
    /\ ~last.blocked /\ last.ok
    /\ last.attempts = stop_after_attempt

\* C4 as stated: every batch handed to send_batch holds between 1 and
\* BATCH_SIZE spans, whatever BATCH_SIZE and BATCH_TIMEOUT are.
C4_Original ==
    exp_pc = "dispatch" => (Len(batch) >= 1 /\ Len(batch) <= BATCH_SIZE)

\* C4 amended: every batch handed to send_batch holds at least one span and at
\* most max(1, BATCH_SIZE) spans.
C4_BatchBounded ==
    exp_pc = "dispatch" => (Len(batch) >= 1 /\ Len(batch) <= Max(1, BATCH_SIZE))

\* C4 witness: a full batch of more than one span is about to be sent.
C4_Witness ==
    exp_pc = "dispatch" /\ BATCH_SIZE >= 2 /\ Len(batch) = BATCH_SIZE

C6_FailedBatchDropped ==
    [][/\ (DispatchStep /\ ~last'.ok)
            => /\ export_failures' = export_failures + 1
               /\ batches_sent' = batches_sent
               /\ span_queue' = span_queue
               /\ last'.fresh
       /\ BatchSeqs(span_queue') \cap dispatched' = {}
       /\ exp_pc' # "top" => BatchSeqs(batch') \cap dispatched' = {}]_vars

\* C6 witness: after a batch failed with its retries exhausted and another was
\* rejected by the open breaker, a later batch is being collected.
C6_Witness ==
    /\ export_failures > fail_max
    /\ batches_sent = 0
    /\ last.blocked
    /\ exp_pc = "loop_check"

\* C7 as stated: when send_batch succeeded and a correlation write then
\* raises, batches_sent goes up by one and export_failures is unchanged.
C7_Original ==
    [][(DispatchStep /\ last'.ok /\ last'.raised)
        => /\ batches_sent' = batches_sent + 1
           /\ export_failures' = export_failures]_vars

\* The guids of the spans of a batch.
BatchGuids(b) == {b[i].span._guid : i \in 1..Len(b)}

C3_InvalidJsonCounted ==
    [][\A w \in Workers :
         (/\ wk_pc[w] = "get"
          /\ wk_pc'[w] # "get"
          /\ recv_queue # <<>>
          /\ ~ValidJson(Head(recv_queue).line))
         => /\ records_received' = records_received + 1
            /\ records_parsed' = records_parsed
            /\ span_queue' = span_queue
            /\ nspans' = nspans
            /\ wk_span'[w] = wk_span[w]
            /\ wk_pc'[w] = "top"]_vars

\* C3 witness: one worker has dequeued two lines, both not valid JSON, and is
\* waiting for a third; no other worker dequeued anything, no span exists.
C3_Witness ==
    \E w \in Workers :
       /\ wk_pc[w] = "get"
       /\ ~ValidJson(wk_line[w])
       /\ wk_line[w] # <<>>
       /\ \A v \in Workers \ {w} : wk_line[v] = <<>>
       /\ records_received = 2
       /\ records_parsed = 0
       /\ nspans = 0

\* A producer that holds an item for a queue keeps that item until the step
\* in which exactly that item joins the queue; every line put on recv_queue is
\* in the queue or was dequeued by a worker, every span built is with its
\* worker or was put on span_queue.
ProducersKeepItem ==
    /\ \A c \in Conns :
         rd_pc[c] \in {"put", "wait"} =>
           \/ /\ rd_pc'[c] \in {"put", "wait"}
              /\ rd_line'[c] = rd_line[c]
           \/ /\ rd_pc'[c] = "split"
              /\ recv_queue' = Append(recv_queue, [id |-> nlines + 1, conn |-> c,
                                                   line |-> rd_line[c]])
    /\ \A w \in Workers :
         wk_pc[w] \in {"put", "wait"} =>
           \/ /\ wk_pc'[w] \in {"put", "wait"}
              /\ wk_span'[w] = wk_span[w]
           \/ /\ wk_pc'[w] = "top"
              /\ span_queue' = Append(span_queue, [seq |-> nspans + 1,
                                                   span |-> wk_span[w]])
    /\ nlines' = Len(recv_queue') + records_received'
    /\ records_parsed' = nspans' + Cardinality({w \in Workers : wk_pc'[w] \in {"put", "wait"}})

\* C9 as stated: in every state both queues hold at most QUEUE_MAXSIZE items,
\* and a producer keeps its item until it is enqueued.
C9_Original ==
    [][/\ Len(recv_queue') <= QUEUE_MAXSIZE
       /\ Len(span_queue') <= QUEUE_MAXSIZE
       /\ ProducersKeepItem]_vars

\* C9: with a positive QUEUE_MAXSIZE both queues hold at most QUEUE_MAXSIZE
\* items in every state (a QUEUE_MAXSIZE of zero makes them unbounded), and
\* for every QUEUE_MAXSIZE a producer keeps its item until it is enqueued:
\* no line or span is discarded because a queue is full.
C9_BoundedWhenPositive ==
    [][/\ QUEUE_MAXSIZE > 0 => /\ Len(recv_queue') <= QUEUE_MAXSIZE
                               /\ Len(span_queue') <= QUEUE_MAXSIZE
       /\ ProducersKeepItem]_vars

\* C9 witness: with a positive QUEUE_MAXSIZE a reader and a worker have each
\* found their queue full, waited, and then enqueued the item they held.
C9_Witness ==
    /\ QUEUE_MAXSIZE > 0
    /\ put_waited = {"recv_queue", "span_queue"}

\* The non-blank newline-terminated segments of a stream, read off the whole
\* stream; cur is the segment being read.
RECURSIVE SegmentsFrom(_, _)
SegmentsFrom(stream, cur) ==
    IF stream = <<>> THEN <<>>
    ELSE IF Head(stream) = "\n"
         THEN (IF \E i \in 1..Len(cur) : cur[i] # " " THEN <<cur>> ELSE <<>>)
              \o SegmentsFrom(Tail(stream), <<>>)
         ELSE SegmentsFrom(Tail(stream), Append(cur, Head(stream)))

Segments(stream) == SegmentsFrom(stream, <<>>)

\* The lines of connection c that are on recv_queue.
QueuedLines(c) ==
    LET mine == SelectSeq(recv_queue, LAMBDA item : item.conn = c)
    IN  [i \in 1..Len(mine) |-> mine[i].line]

\* C10: however the stream of a connection was cut into chunks, the lines
\* the reader has enqueued, then the line it is putting, then the segments
\* still in its buffer are the non-blank newline-terminated segments of the
\* bytes received; between two recv calls the enqueued lines are all of them.
C10_FramingFollowsStream ==
    \A c \in Conns :
       LET putting == IF rd_pc[c] \in {"put", "wait"} THEN <<rd_line[c]>> ELSE <<>>
           buffered == IF rd_pc[c] \in {"split", "put", "wait"}
                       THEN Segments(buf[c]) ELSE <<>>
       IN  /\ enq[c] \o putting \o buffered = Segments(got[c])
           /\ QueuedLines(c) = enq[c]

\* C10 witness: two lines were enqueued from a stream whose first segment
\* arrived over two chunks and whose second segment began in the chunk that
\* ended the first.
C10_Witness ==
    \E c \in Conns :
       /\ rd_pc[c] = "top"
       /\ Len(enq[c]) = 2
       /\ \E k1, k2 \in cuts[c] :
            /\ k1 < FirstNewline(got[c])
            /\ FirstNewline(got[c]) < k2
            /\ k2 < Len(got[c])
            /\ got[c][k2] # "\n"

\* C11 as stated: once the shutdown flag is set, the main thread eventually
\* returns from its drain loop and the process exits.
C11_Original == shutdown_event ~> (acc_pc = "exited")

\* C12 as stated: a worker stops only with the flag set and recv_queue empty,
\* the exporter stops only with the flag set and span_queue empty; with the
\* flag set and its queue non-empty neither stops.
C12_Original ==
    [][/\ \A w \in Workers :
            (wk_pc'[w] = "stopped" /\ wk_pc[w] # "stopped")
            => (shutdown_event /\ recv_queue = <<>>)
       /\ (exp_pc' = "stopped" /\ exp_pc # "stopped")
          => (shutdown_event /\ span_queue = <<>>)]_vars

\* C13: the main thread returns only in the step in which it sees span_queue
\* empty, having seen recv_queue empty in the same evaluation of the loop
\* condition; a queue seen non-empty sends it to sleep and to a new evaluation.
C13_ReturnsAfterBothEmpty ==
    [][/\ (acc_pc' = "exited" /\ acc_pc # "exited")
          => (acc_pc = "check_span" /\ span_queue = <<>>)
       /\ (acc_pc' = "check_span" /\ acc_pc # "check_span")
          => (acc_pc = "closed" /\ recv_queue = <<>>)
       /\ (acc_pc = "closed" /\ acc_pc' # "closed" /\ recv_queue # <<>>)
          => acc_pc' = "sleep"
       /\ (acc_pc = "check_span" /\ acc_pc' # "check_span" /\ span_queue # <<>>)
          => acc_pc' = "sleep"]_vars

\* C13 witness: the main thread has returned, after lines were received,
\* spans built and a batch sent.
C13_Witness ==
    /\ acc_pc = "exited"
    /\ records_received > 0
    /\ batches_sent > 0
    /\ span_queue = <<>>

\* C14 as stated: while the shutdown flag is not set, the exporter thread is
\* in its loop and every worker thread is in its loop: no exception has ended
\* either.
C14_Original ==
    ~shutdown_event =>
        /\ exp_pc \notin {"dead", "stopped"}
        /\ \A w \in Workers : wk_pc[w] \in {"top", "get", "put", "wait"}

\* The breaker is open and its reset timeout has elapsed: the next call is
\* the half-open trial.
TrialDue == breaker.state = "open" /\ breaker.since_open >= reset_timeout

\* C15: the first call made once reset_timeout has elapsed since the breaker
\* opened is let through to the network; if it succeeds the breaker is closed
\* with its counter at zero and calls made on a closed breaker are let
\* through; if it fails the breaker is open with a new reset window, inside
\* which every call is rejected without a POST: one trial per window.
C15_OneTrialAfterReset ==
    [][DispatchStep =>
         /\ TrialDue =>
               /\ ~last'.blocked
               /\ last'.attempts >= 1
               /\ last'.ok => breaker' = [state |-> "closed", fail_counter |-> 0,
                                           since_open |-> 0]
               /\ ~last'.ok => /\ breaker'.state = "open"
                                /\ breaker'.since_open = 0
         /\ breaker.state = "closed" => ~last'.blocked /\ last'.attempts >= 1
         /\ (breaker.state = "open" /\ ~TrialDue)
               => /\ last'.blocked
                  /\ last'.attempts = 0
                  /\ breaker' = breaker]_vars

\* C15 witness: fail_max calls failed, then one more call was let through and
\* failed: the trial; the breaker is open again, its window just begun.
C15_Witness ==
    /\ export_failures = fail_max + 1
    /\ batches_sent = 0
    /\ ~last.blocked /\ ~last.ok /\ last.attempts >= 1
    /\ breaker.state = "open"
    /\ breaker.since_open = 0

\* C16: a closed breaker opens only in a call that failed and is the
\* fail_max-th failed call in a row; a failed call adds one to the breaker's
\* counter however many attempts it made, a successful call sets the counter
\* to zero, and a closed breaker has counted fewer than fail_max failures.
C16_OpensAfterFiveInARow ==
    [][/\ (breaker.state = "closed" /\ breaker'.state = "open")
          => /\ DispatchStep
             /\ ~last'.ok /\ ~last'.blocked
             /\ consec_fail' = fail_max
       /\ (DispatchStep /\ breaker.state = "closed" /\ ~last'.ok)
          => breaker'.fail_counter = breaker.fail_counter + 1
       /\ (DispatchStep /\ last'.ok) => breaker'.fail_counter = 0
       /\ breaker'.state = "closed"
          => /\ breaker'.fail_counter = consec_fail'
             /\ breaker'.fail_counter < fail_max]_vars

\* C16 witness: a call failed after stop_after_attempt attempts, the next
\* succeeded, and the fail_max calls after it failed: the breaker is open.
C16_Witness ==
    /\ breaker.state = "open"
    /\ batches_sent = 1
    /\ export_failures = fail_max + 1
    /\ consec_fail = fail_max
    /\ ~last.blocked
    /\ last.attempts = stop_after_attempt

\* a <= b, for two naturals given by their decimal digits
DecLeq(a, b) ==
    \/ Len(a) < Len(b)
    \/ /\ Len(a) = Len(b)
       /\ \/ a = b
          \/ \E i \in 1..Len(a) : a[i] < b[i] /\ \A j \in 1..(i - 1) : a[j] = b[j]

\* ds * m + a, for a natural given by its decimal digits
RECURSIVE MulAdd(_, _, _)
MulAdd(ds, m, a) ==
    IF ds = <<>> THEN (IF a = 0 THEN <<>> ELSE Dec(a))
    ELSE LET v == ds[Len(ds)] * m + a
         IN  MulAdd(SubSeq(ds, 1, Len(ds) - 1), m, v \div 10) \o <<v % 10>>

\* The natural that the hexadecimal digits of text denote, in decimal digits.
RECURSIVE HexValue(_, _)
HexValue(text, acc) ==
    IF text = <<>> THEN acc
    ELSE LET d == (CHOOSE i \in 1..Len(HexChars) : HexChars[i] = Head(text)) - 1
         IN  HexValue(Tail(text), StripZeros(MulAdd(acc, Len(HexChars), d)))

\* text is the SpanIdLen-character zero-padded lowercase hexadecimal
\* representation of n.
IsHex16(text, n) ==
    /\ Len(text) = SpanIdLen
    /\ \A i \in 1..Len(text) : text[i] \in Range(HexChars)
    /\ ~n.neg
    /\ HexValue(text, <<0>>) = n.digits

\* 0 <= n < 16^16
FitsSixteen(n) == ~n.neg /\ DecLeq(n.digits, U64Max.digits)

\* C17 as stated: for every record with ProcID = n the spanId is the
\* 16-character zero-padded lowercase hexadecimal representation of n.
C17_Original ==
    (built.done /\ Has(built.record, "ProcID"))
        => IsHex16(built.ids.spanId, built.record.ProcID)

\* C17: for every record with ProcID = n and 0 <= n < 16^16 the spanId is the
\* 16-character zero-padded lowercase hexadecimal representation of n; for a
\* larger n it has more than 16 characters, for a negative n it begins with
\* the sign.
C17_SpanIdOfProcID ==
    (built.done /\ Has(built.record, "ProcID"))
        => LET n == built.record.ProcID
               spanId == built.ids.spanId
           IN  /\ FitsSixteen(n) => IsHex16(spanId, n)
               /\ (~n.neg /\ ~FitsSixteen(n)) => Len(spanId) > SpanIdLen
               /\ n.neg => spanId[1] = "-"

\* C17 witness: the span of a record whose ProcID is 16^16 - 1 was built, its
\* spanId sixteen times the digit f.
C17_Witness ==
    /\ built.done
    /\ Has(built.record, "ProcID")
    /\ built.record.ProcID = U64Max
    /\ built.ids.spanId = [i \in 1..SpanIdLen |-> "f"]

C19_TraceIdOfGuidAndEvent ==
    built.done
        => \A other \in TraceRecords :
              (Get(other, "SessionGUID", <<>>) = Get(built.record, "SessionGUID", <<>>))
              => IF is_logoff(other) = is_logoff(built.record)
                 THEN trace_id(other) = built.ids.traceId
                 ELSE trace_id(other) # built.ids.traceId

\* C19 witness: the trace id of a logoff record with a SessionGUID, a
\* ProcName and a ProcID was built at the latest clock reading.
C19_Witness ==
    /\ built.done
    /\ built.epoch_s = MaxEpoch
    /\ is_logoff(built.record)
    /\ Has(built.record, "ProcName") /\ Has(built.record, "ProcID")
    /\ Has(built.record, "SessionGUID")
    /\ built.record.SessionGUID = <<"a", "-">>
    /\ built.ids.traceId = <<"2", "a">> \o Zeros(TraceLen - 2)

\* C20 as stated: for every record whose SessionGUID is a string the trace id
\* is made of exactly 32 lowercase hexadecimal characters.
C20_Original ==
    (built.done /\ Has(built.record, "SessionGUID"))
        => /\ Len(built.ids.traceId) = TraceLen
           /\ \A i \in 1..Len(built.ids.traceId) :
                 built.ids.traceId[i] \in Range(HexChars)

\* C21: the span built for a record is tagged 'logoff' exactly when the record
\* has the key LogoffProcType and 'logon' otherwise; its name is the record's
\* ProcName and its service name is LogoffProcType for a logoff record and
\* LogonProcType for a logon record; a field that is missing gives the
\* placeholder.
C21_TagsOfRecord ==
    built.done
        => LET record == built.record
               tags == built.tags
           IN  /\ tags.event_type = "logoff" <=> Has(record, "LogoffProcType")
               /\ tags.event_type = "logon" <=> ~Has(record, "LogoffProcType")
               /\ tags.name = IF Has(record, "ProcName") THEN record.ProcName
                              ELSE "unknown-span"
               /\ Has(record, "LogoffProcType")
                     => tags.service_name = record.LogoffProcType
               /\ (~Has(record, "LogoffProcType") /\ Has(record, "LogonProcType"))
                     => tags.service_name = record.LogonProcType
               /\ (~Has(record, "LogoffProcType") /\ ~Has(record, "LogonProcType"))
                     => tags.service_name = "unknown-service"

\* C21 witness: the span of a logoff record that also has a LogonProcType, of
\* another value, was built: tagged logoff, named after ProcName, its service
\* name the LogoffProcType.
C21_Witness ==
    /\ built.done
    /\ Has(built.record, "LogoffProcType") /\ Has(built.record, "LogonProcType")
    /\ Has(built.record, "ProcName")
    /\ built.record.LogoffProcType = "Service"
    /\ built.record.LogonProcType = "Interactive"
    /\ built.tags = [service_name |-> "Service", name |-> built.record.ProcName,
                     event_type |-> "logoff"]

\* C22 as stated: the step that ends the collecting phase hands the batch to
\* send_batch; the exporter goes on collecting neither once it has read the
\* clock at BATCH_TIMEOUT or more after the first span was dequeued nor once
\* the batch holds BATCH_SIZE spans; and a batch is handed over only full or
\* with the clock at BATCH_TIMEOUT or more.
C22_Original ==
    [][/\ (Collecting /\ exp_pc' \notin {"loop_check", "timeout_arg", "get_more"})
          => exp_pc' = "dispatch"
       /\ (/\ exp_pc = "loop_check" /\ exp_pc' # "loop_check"
           /\ (Len(batch) >= BATCH_SIZE \/ elapsed >= BATCH_TIMEOUT))
          => exp_pc' = "dispatch"
       /\ (exp_pc' = "dispatch" /\ exp_pc # "dispatch")
          => (Len(batch') >= BATCH_SIZE \/ elapsed' >= BATCH_TIMEOUT)]_vars

\* C23 as stated: when every span reached span_queue more than BATCH_TIMEOUT
\* after the span before it, every batch the exporter dispatches holds one
\* span.
C23_Original ==
    (exp_pc = "dispatch" /\ burst.paced /\ burst.slow) => Len(batch) = 1

\* C23 amended: when every span reached span_queue while the queue was empty
\* and the exporter was not collecting a batch, every batch the exporter
\* dispatches holds exactly one span.
C23_OneBatchPerSpan ==
    (exp_pc = "dispatch" /\ burst.paced /\ burst.apart) => Len(batch) = 1

\* C23 witness: the second of two spans that came more than BATCH_TIMEOUT
\* apart, each while the exporter was not collecting, is dispatched alone
\* although a batch may hold more.
C23_Witness ==
    /\ exp_pc = "dispatch"
    /\ burst.paced /\ burst.apart /\ burst.slow
    /\ BATCH_TIMEOUT >= 1 /\ BATCH_SIZE >= 2
    /\ nspans >= 2
    /\ Len(batch) = 1
    /\ batch[1].seq = 2

\* C24 as stated: when the process has exited, every span the exporter held
\* in a batch at the moment the shutdown flag was set has been through a call
\* of send_batch that returned or raised, and was counted with its batch.
C24_Original ==
    acc_pc = "exited" => at_shutdown.held \subseteq dispatched

\* C25 as stated: a connection reader closes its socket only in the step in
\* which recv returns no data or raises; with the shutdown flag set or not,
\* it leaves its loop in no other way.
C25_Original ==
    [][\A c \in Conns :
         (rd_pc'[c] = "closed" /\ rd_pc[c] # "closed") => rd_pc[c] = "recv"]_vars

\* The connections accepted so far.
AcceptedNow == {c \in Conns : rd_pc[c] \notin {"pending", "absent"}}

\* C26: at most one connection is accepted after the shutdown flag was set;
\* a connection is accepted only by an accept call in progress; with the flag
\* set, the accept call in progress returns to the loop test and the loop test
\* leaves the loop and closes the listening socket; once the acceptor has left
\* its loop it never comes back and no connection is accepted.
C26_AcceptorStops ==
    [][/\ shutdown_event' => Cardinality(AcceptedNow' \ at_shutdown'.accepted) <= 1
       /\ AcceptedNow' # AcceptedNow => acc_pc = "accept"
       /\ (shutdown_event /\ acc_pc = "accept" /\ acc_pc' # "accept") => acc_pc' = "top"
       /\ (shutdown_event /\ acc_pc = "top" /\ acc_pc' # "top") => acc_pc' = "closed"
       /\ acc_pc \notin {"top", "accept"}
             => /\ acc_pc' \notin {"top", "accept"}
                /\ AcceptedNow' = AcceptedNow]_vars

\* C26 witness: the flag was set during an accept call, which then accepted
\* a connection; the acceptor has closed the listening socket with another
\* client still waiting to connect.
C26_Witness ==
    /\ shutdown_event
    /\ acc_pc = "closed"
    /\ Cardinality(AcceptedNow \ at_shutdown.accepted) = 1
    /\ \E c \in Conns : rd_pc[c] = "pending"

InPutOrder(b) == \A i, j \in 1..Len(b) : i < j => b[i].seq < b[j].seq

\* C28: under every interleaving of the connections, the lines a connection
\* has put on recv_queue are, in order, the first non-blank segments of its
\* byte stream, and they stand on recv_queue in that order; the spans of the
\* batch being collected, and of the batch handed to send_batch, stand in the
\* order in which they left span_queue, all of them before the spans still
\* on the queue.
C28_FifoPerProducer ==
    /\ \A c \in Conns :
          LET stream == Segments(got[c])
          IN  /\ Len(enq[c]) <= Len(stream)
              /\ enq[c] = SubSeq(stream, 1, Len(enq[c]))
              /\ QueuedLines(c) = enq[c]
    /\ InPutOrder(span_queue)
    /\ HoldsBatch => InPutOrder(batch \o span_queue)
    /\ InPutOrder(last.batch)

\* C28 witness: the lines of two connections, each a line of one kind and
\* then one of the other, stand interleaved on recv_queue, and a batch of two
\* spans is at send_batch.
C28_Witness ==
    /\ Len(recv_queue) = 2 * MaxConns
    /\ recv_queue[1].conn # recv_queue[2].conn
    /\ recv_queue[2].conn # recv_queue[3].conn
    /\ \A c \in Conns : Len(enq[c]) = 2 /\ enq[c][1] # enq[c][2]
    /\ exp_pc = "dispatch"
    /\ Len(batch) = 2

\* C29 as stated: a send of a batch that the breaker let through gives the
\* batch_latency summary exactly one observation, however many attempts the
\* send took.
C29_Original ==
    (last.batch # <<>> /\ ~last.blocked) => last.observations = 1

\* C30 as stated: the step that ends a cycle of the exporter's loop, a cycle
\* that dispatched a batch or one whose pull timed out, is a step in which
\* the exporter sets the span_queue_size gauge to the depth of span_queue.
C30_Original ==
    [][(exp_pc' = "top" /\ exp_pc # "top")
        => /\ gauge_set_by' = "exporter"
           /\ span_queue_size' = Len(span_queue')]_vars

\* A step in which worker w dequeues a line (lines 228-232).
WorkerDequeues(w) == wk_pc[w] = "get" /\ recv_queue # <<>> /\ wk_pc'[w] # "get"

\* A step in which worker w puts its span on span_queue (line 237).
WorkerPuts(w) == wk_pc[w] \in {"put", "wait"} /\ wk_pc'[w] = "top"

IsObjectLine(line) == orjson_loads(line) = [ok |-> TRUE, kind |-> "object"]

\* C31: a line that decodes to an object with any subset of the optional
\* fields missing is counted as parsed and yields exactly one span, in which
\* a missing numeric field is 0 (spanId sixteen zeros for a missing ProcID,
\* parentSpanId empty for a missing ProcParentID) and a missing string is
\* its placeholder; that one span is what the worker puts on span_queue.
C31_MissingFieldsDefault ==
    [][\A w \in Workers :
        /\ (/\ WorkerDequeues(w)
            /\ IsObjectLine(Head(recv_queue).line)
            /\ built.record \in OptionalRecords)
           => LET r == built.record
                  span == wk_span'[w]
                  rs == span.resourceSpans
              IN  /\ records_parsed' = records_parsed + 1
                  /\ wk_pc'[w] = "put"
                  /\ Len(rs) = 1
                  /\ ~Has(r, "ProcID") => rs[1].ids.spanId = Zeros(SpanIdLen)
                  /\ ~Has(r, "ProcParentID") => rs[1].ids.parentSpanId = <<>>
                  /\ \A key \in NumericKeys : ~Has(r, key) => rs[1].nums[key] = Zero
                  /\ ~Has(r, "ProcName") => rs[1].tags.name = "unknown-span"
                  /\ ~Has(r, "ProcUser") => rs[1].ProcUser = "unknown-user"
                  /\ (~Has(r, "LogonProcType") /\ ~Has(r, "LogoffProcType"))
                        => rs[1].tags.service_name = "unknown-service"
                  /\ ~Has(r, "SessionGUID")
                        => /\ span._guid = <<>>
                           /\ Tail(rs[1].ids.traceId) = Zeros(ZeroPad)
        /\ WorkerPuts(w)
           => span_queue' = Append(span_queue, [seq |-> nspans + 1, span |-> wk_span[w]])
      ]_vars

\* C31 witness: two lines that decode to an object with no field at all were
\* counted as parsed, and the span of the first, with a spanId of sixteen
\* zeros and no parentSpanId, is on span_queue.
C31_Witness ==
    /\ DOMAIN built.record = {}
    /\ records_parsed = 2
    /\ span_queue # <<>>
    /\ span_queue[1].span.resourceSpans[1].ids.spanId = Zeros(SpanIdLen)
    /\ span_queue[1].span.resourceSpans[1].ids.parentSpanId = <<>>
    /\ span_queue[1].span.resourceSpans[1].tags.name = "unknown-span"

\* C32 as stated: every entry of recv_queue is a line with the whitespace
\* around it trimmed, and none is empty or whitespace only.
C32_Original ==
    \A i \in 1..Len(recv_queue) :
        LET line == recv_queue[i].line
        IN  /\ line = StripRight(StripLeft(line))
            /\ ~Blank(line)

\* C33: every attempt of a send_batch call posts one payload whose
\* resourceSpans list holds exactly one element per span of the batch, in
\* batch order, and the batch is the same after the call as before it.
C33_OnePayloadPerAttempt ==
    [][DispatchStep
        => /\ batch' = batch
           /\ last'.batch = batch
           /\ Len(last'.posted) = last'.attempts
           /\ \A k \in 1..last'.attempts :
                /\ Len(last'.posted[k]) = Len(batch)
                /\ \A i \in 1..Len(batch) :
                     /\ Len(batch[i].span.resourceSpans) = 1
                     /\ last'.posted[k][i] = batch[i].span.resourceSpans[1]]_vars

\* C33 witness: a batch of two spans with different trace ids was posted
\* stop_after_attempt times, each time as a payload of two elements.
C33_Witness ==
    /\ last.attempts = stop_after_attempt
    /\ Len(last.batch) = 2
    /\ last.batch[1].span._trace_id # last.batch[2].span._trace_id
    /\ Len(last.posted) = stop_after_attempt
    /\ Len(last.posted[stop_after_attempt]) = 2
    /\ last.posted[1][2].ids.traceId = last.batch[2].span._trace_id

\* C34 as stated: with the shutdown flag not set and the threads scheduled
\* fairly, every span on span_queue is eventually handed to send_batch as
\* part of a batch.
C34_Original ==
    \A s \in 1..MaxFeed :
        (s \in BatchSeqs(span_queue)) ~> (s \in dispatched \/ shutdown_event)

\* The ids of the lines on a queue.
LineIds(q) == {q[i].id : i \in 1..Len(q)}

\* C35: under any interleaving of the workers and the exporter, a line that
\* a worker dequeues leaves recv_queue in that step and goes to that worker
\* alone, and lines that join the queue are new ones, so no line is dequeued
\* twice; a span that the exporter holds or has dispatched is no longer on
\* span_queue, and no batch handed to send_batch holds a span twice or a span
\* of an earlier batch.
C35_AtMostOnce ==
    [][/\ \A w \in Workers :
            WorkerDequeues(w)
               => /\ recv_queue' = Tail(recv_queue)
                  /\ Head(recv_queue).id \notin LineIds(recv_queue')
                  /\ wk_line'[w] = Head(recv_queue).line
                  /\ records_received' = records_received + 1
                  /\ \A v \in Workers \ {w} :
                        /\ wk_pc'[v] = wk_pc[v]
                        /\ wk_line'[v] = wk_line[v]
                        /\ wk_span'[v] = wk_span[v]
       /\ \A id \in LineIds(recv_queue') \ LineIds(recv_queue) : id > nlines
       /\ Cardinality(LineIds(recv_queue')) = Len(recv_queue')
       /\ Cardinality(BatchSeqs(span_queue')) = Len(span_queue')
       /\ BatchSeqs(span_queue') \cap dispatched' = {}
       /\ HoldsBatch' => BatchSeqs(span_queue') \cap BatchSeqs(batch') = {}
       /\ DispatchStep
            => /\ Cardinality(BatchSeqs(batch)) = Len(batch)
               /\ BatchSeqs(batch) \cap dispatched = {}
               /\ last'.fresh]_vars

\* C35 witness: both workers hold a line they dequeued, each its own, and
\* later two batches have been handed to send_batch.
C35_Witness ==
    /\ records_received = 2
    /\ records_parsed = 2
    /\ batches_sent = 2
    /\ Cardinality(dispatched) = 2
    /\ \A w \in Workers : wk_line[w] # <<>>

\* The trace ids of the spans of batch b with guid g, and the trace id of the
\* last of them in batch order.
TraceIdsOf(b, g) == {b[i].span._trace_id : i \in {j \in 1..Len(b) : b[j].span._guid = g}}

LastTraceIdOf(b, g) ==
    LET at == {j \in 1..Len(b) : b[j].span._guid = g}
    IN  b[CHOOSE j \in at : \A k \in at : k <= j].span._trace_id

\* The guids of batch b whose spans carry more than one trace id.
SharedGuids(b) ==
    {g \in {b[i].span._guid : i \in 1..Len(b)} :
        g # <<>> /\ Cardinality(TraceIdsOf(b, g)) > 1}

\* The writes of the last batch for guid g.
WritesFor(g) == {i \in 1..Len(last.writes) : last.writes[i].guid = g}

FullGuid(guid) == Len(RemoveDashes(guid)) = TraceLen

\* C37 as stated: a record whose SessionGUID is a full GUID shares its trace
\* id with no record of the same event type and another full SessionGUID.
C37_Original ==
    (built.done /\ FullGuid(Get(built.record, "SessionGUID", <<>>)))
        => \A other \in TraceRecords :
              (/\ is_logoff(other) = is_logoff(built.record)
               /\ FullGuid(Get(other, "SessionGUID", <<>>))
               /\ trace_id(other) = built.ids.traceId)
              => Get(other, "SessionGUID", <<>>) = built.record.SessionGUID

\* A step in which the reader of connection c ends and closes its socket.
ReaderEnds(c) == rd_pc[c] # "closed" /\ rd_pc'[c] = "closed"

\* C38: the step in which a reader ends leaves recv_queue as it was, whatever
\* is in the reader's buffer, and the lines a closed connection has on
\* recv_queue are the non-blank newline-terminated segments of the bytes it
\* received: the bytes after the last newline are on no entry.
C38_PartialLineDropped ==
    [][\A c \in Conns :
         /\ ReaderEnds(c) => (recv_queue' = recv_queue /\ enq' = enq)
         /\ rd_pc'[c] = "closed"
               => /\ QueuedLines(c)' = Segments(got'[c])
                  /\ enq'[c] = Segments(got'[c])]_vars

\* C38 witness: a connection closed after a line and then the text of a
\* second line without its newline had been received; only the first line
\* was enqueued.
C38_Witness ==
    /\ rd_pc[1] = "closed"
    /\ got[1] = <<"x", "\n", "{}">>
    /\ buf[1] = <<"{}">>
    /\ QueuedLines(1) = << <<"x">> >>

\* A line whose text is the JSON number 5, blanks around it allowed.
IsNumberLine(line) == StripRight(StripLeft(line)) = <<"5">>

====
